---- MODULE Spec2Model ----
(***************************************************************************)
(* Model of the Sony IMX477 sensor driver (src/imx477_documentado.c): the   *)
(* register sequencer, the V4L2 controls, the format resolver, runtime      *)
(* power management and the streaming state machine.                        *)
(*                                                                          *)
(* Every driver function is an operator from a driver-state record d to the *)
(* driver-state record after the call; d.ret carries the C return value and *)
(* d.log the bus and power events of the entry point being executed.  One   *)
(* action per entry point applies the operator of the whole handler.        *)
(*                                                                          *)
(* Kernel services the driver calls (runtime PM, the V4L2 control           *)
(* framework, v4l2_find_nearest_size) are modelled by their documented      *)
(* behaviour at the driver's call sites.  pm_runtime_put() is modelled as   *)
(* running the runtime-suspend callback at the moment the last reference    *)
(* is dropped.                                                              *)
(***************************************************************************)
EXTENDS Integers, Sequences, FiniteSets, TLC

VARIABLES
  dev,                  \* attach life cycle: "unbound", "bound", "failed", "removed"
  compatible,           \* imx477->compatible_data: "imx477" or "imx378"
  trigger_mode_of,      \* imx477->trigger_mode_of (-1: no override)
  trigger_mode,         \* module parameter trigger_mode
  dpc_enable,           \* module parameter dpc_enable
  streaming,            \* imx477->streaming
  common_regs_written,  \* imx477->common_regs_written
  long_exp_shift,       \* imx477->long_exp_shift
  mode,                 \* imx477->mode (pointer into a mode table)
  fmt_code,             \* imx477->fmt_code
  ctrl,                 \* the V4L2 controls of imx477->ctrl_handler
  usage_count,          \* runtime-PM usage counter of the device
  rpm_active,           \* runtime-PM status is RPM_ACTIVE
  powered,              \* supplies, clock and reset line are up
  regs,                 \* the sensor's register file (tracked bytes)
  hw,                   \* sensor-side bookkeeping since the last power-on
  sys_suspended,        \* between imx477_suspend and imx477_resume
  log,                  \* bus and power events of the last entry point
  fmt,                  \* the format the last imx477_set_pad_format handed back
  ret,                  \* return value of the last entry point
  op,                   \* the last entry point and its arguments
  mutex,                \* imx477->mutex: the thread holding it, or "free"
  pc,                   \* per thread: the entry point it is in and its position
  app                   \* the capture application: its two threads and fields

vars == <<dev, compatible, trigger_mode_of, trigger_mode, dpc_enable, streaming,
          common_regs_written, long_exp_shift, mode, fmt_code, ctrl,
          usage_count, rpm_active, powered, regs, hw, sys_suspended,
          log, fmt, ret, op, mutex, pc, app>>

----------------------------------------------------------------------------
\* Bounds of the model.

\* A bus fault can be placed on any of the first MaxFailIdx entries of the
\* common block (and on its 10th), and on the first entry of any other list.
MaxFailIdx == 1

----------------------------------------------------------------------------
\* Program constants.

EIO == 5
EINVAL == 22
EBUSY == 16
ERANGE == 34

IMX477_REG_VALUE_08BIT == 1
IMX477_REG_VALUE_16BIT == 2

IMX477_REG_CHIP_ID == 22
IMX477_CHIP_ID == 1143
IMX378_CHIP_ID == 888

IMX477_REG_MODE_SELECT == 256
IMX477_MODE_STANDBY == 0
IMX477_MODE_STREAMING == 1
IMX477_REG_ORIENTATION == 257

IMX477_PIXEL_RATE == 840000000
IMX477_REG_FRAME_LENGTH == 832
IMX477_FRAME_LENGTH_MAX == 65500
IMX477_REG_LINE_LENGTH == 834
IMX477_LINE_LENGTH_MAX == 65520
IMX477_LONG_EXP_SHIFT_MAX == 7
IMX477_LONG_EXP_SHIFT_REG == 12544

IMX477_REG_EXPOSURE == 514
IMX477_EXPOSURE_OFFSET == 22
IMX477_EXPOSURE_MIN == 4
IMX477_EXPOSURE_DEFAULT == 1600
IMX477_EXPOSURE_MAX == IMX477_FRAME_LENGTH_MAX - IMX477_EXPOSURE_OFFSET

IMX477_REG_ANALOG_GAIN == 516
IMX477_ANA_GAIN_MIN == 0
IMX477_ANA_GAIN_MAX == 978
IMX477_ANA_GAIN_DEFAULT == 0

IMX477_REG_DIGITAL_GAIN == 526
IMX477_DGTL_GAIN_MIN == 256
IMX477_DGTL_GAIN_MAX == 65535
IMX477_DGTL_GAIN_DEFAULT == 256

IMX477_REG_TEST_PATTERN == 1536
IMX477_REG_TEST_PATTERN_R == 1538
IMX477_REG_TEST_PATTERN_GR == 1540
IMX477_REG_TEST_PATTERN_B == 1542
IMX477_REG_TEST_PATTERN_GB == 1544
IMX477_TEST_PATTERN_COLOUR_MIN == 0
IMX477_TEST_PATTERN_COLOUR_MAX == 4095

IMX477_REG_MC_MODE == 16139
IMX477_REG_MS_SEL == 12353
IMX477_REG_XVS_IO_CTRL == 12352
IMX477_REG_EXTOUT_EN == 19329

\* The two on-sensor defect-pixel-correction registers (0x0b05, 0x0b06).
IMX477_REG_DPC_1 == 2821
IMX477_REG_DPC_2 == 2822

\* imx477_test_pattern_val[]
imx477_test_pattern_val == <<0, 2, 1, 3, 4>>

----------------------------------------------------------------------------
\* Register tables (constant data).

\* mode_common_regs[] (src/imx477_documentado.c:189-499), 309 entries <<address, val>>
mode_common_regs ==
  <<<<310,24>>, <<311,0>>, <<312,1>>, <<57344,0>>, <<57466,1>>, <<2056,2>>, <<19177,24>>, <<19178,8>>, <<63004,4>>, <<63006,4>>,
    <<19177,33>>, <<19178,128>>, <<14504,31>>, <<14505,255>>, <<14506,31>>, <<14507,255>>, <<21972,0>>, <<21973,0>>, <<21974,7>>, <<21975,255>>,
    <<21992,7>>, <<21993,255>>, <<21994,0>>, <<21995,0>>, <<22348,7>>, <<22349,255>>, <<22350,0>>, <<22351,0>>, <<22356,0>>, <<22357,0>>,
    <<22358,7>>, <<22359,255>>, <<22899,4>>, <<22900,1>>, <<23827,195>>, <<23828,88>>, <<23829,163>>, <<23830,29>>, <<23831,101>>, <<23832,140>>,
    <<23834,6>>, <<23835,169>>, <<23836,69>>, <<23837,58>>, <<23838,171>>, <<23839,21>>, <<23841,14>>, <<23842,82>>, <<23843,170>>, <<23844,125>>,
    <<23845,87>>, <<23846,168>>, <<23863,90>>, <<23864,90>>, <<23927,127>>, <<31605,14>>, <<31606,11>>, <<31607,8>>, <<31608,10>>, <<31609,71>>,
    <<31612,0>>, <<31613,0>>, <<36127,0>>, <<36135,0>>, <<36868,3>>, <<37376,80>>, <<37377,108>>, <<37378,113>>, <<37379,0>>, <<37380,113>>,
    <<37381,1>>, <<37745,106>>, <<37747,106>>, <<37749,100>>, <<39194,0>>, <<39275,140>>, <<39276,100>>, <<39277,80>>, <<39500,13>>, <<39501,13>>,
    <<40961,10>>, <<40963,10>>, <<40965,10>>, <<40966,1>>, <<40967,192>>, <<40969,192>>, <<15754,1>>, <<17441,4>>, <<31547,1>>, <<31564,0>>,
    <<39173,0>>, <<39175,0>>, <<39177,0>>, <<39179,0>>, <<39236,60>>, <<39239,60>>, <<39242,140>>, <<39243,80>>, <<39244,27>>, <<39245,140>>,
    <<39246,80>>, <<39247,27>>, <<39248,140>>, <<39249,27>>, <<39250,10>>, <<39251,140>>, <<39252,27>>, <<39253,10>>, <<39443,4>>, <<39444,4>>,
    <<39449,0>>, <<39452,4>>, <<39453,4>>, <<39462,5>>, <<39463,5>>, <<39468,1>>, <<39469,3>>, <<39471,5>>, <<39472,5>>, <<39489,0>>,
    <<39494,0>>, <<39495,0>>, <<39959,53>>, <<39965,49>>, <<39977,80>>, <<39995,47>>, <<40001,107>>, <<40007,45>>, <<40013,64>>, <<40043,0>>,
    <<40049,200>>, <<40051,50>>, <<40053,4>>, <<40061,45>>, <<40067,64>>, <<40084,63>>, <<40085,63>>, <<40086,63>>, <<40087,0>>, <<40088,0>>,
    <<40089,0>>, <<40090,63>>, <<40091,63>>, <<40092,63>>, <<40096,15>>, <<40097,15>>, <<40098,15>>, <<40099,0>>, <<40100,0>>, <<40101,0>>,
    <<40102,30>>, <<40103,30>>, <<40104,30>>, <<40105,0>>, <<40106,0>>, <<40107,0>>, <<40108,9>>, <<40109,9>>, <<40110,9>>, <<40125,80>>,
    <<40127,80>>, <<40129,80>>, <<40131,64>>, <<40133,64>>, <<40135,64>>, <<40137,10>>, <<40139,10>>, <<40141,10>>, <<40215,53>>, <<40221,49>>,
    <<40233,80>>, <<40251,47>>, <<40257,107>>, <<40263,66>>, <<40269,90>>, <<40299,0>>, <<40305,200>>, <<40307,50>>, <<40309,4>>, <<40317,66>>,
    <<40323,90>>, <<40340,63>>, <<40341,63>>, <<40342,63>>, <<40343,0>>, <<40344,0>>, <<40345,0>>, <<40346,63>>, <<40347,63>>, <<40348,63>>,
    <<40349,31>>, <<40350,31>>, <<40351,31>>, <<40352,15>>, <<40353,15>>, <<40354,15>>, <<40355,0>>, <<40356,0>>, <<40357,0>>, <<40358,30>>,
    <<40359,30>>, <<40360,30>>, <<40361,0>>, <<40362,0>>, <<40363,0>>, <<40364,9>>, <<40365,9>>, <<40366,9>>, <<40393,10>>, <<40395,10>>,
    <<40397,10>>, <<40471,53>>, <<40477,49>>, <<40489,80>>, <<40507,47>>, <<40513,107>>, <<40519,45>>, <<40525,64>>, <<40555,0>>, <<40561,200>>,
    <<40563,50>>, <<40565,4>>, <<40596,15>>, <<40597,15>>, <<40598,15>>, <<40599,0>>, <<40600,0>>, <<40601,0>>, <<40608,15>>, <<40609,15>>,
    <<40610,15>>, <<40611,0>>, <<40612,0>>, <<40613,0>>, <<40614,63>>, <<40615,63>>, <<40616,63>>, <<40617,0>>, <<40618,0>>, <<40619,0>>,
    <<40620,9>>, <<40621,9>>, <<40622,9>>, <<40649,10>>, <<40651,10>>, <<40653,10>>, <<40727,53>>, <<40733,49>>, <<40745,80>>, <<40763,47>>,
    <<40769,107>>, <<40775,66>>, <<40781,90>>, <<40811,0>>, <<40817,200>>, <<40819,50>>, <<40821,4>>, <<40852,15>>, <<40853,15>>, <<40854,15>>,
    <<40855,0>>, <<40856,0>>, <<40857,0>>, <<40858,47>>, <<40859,47>>, <<40860,47>>, <<40861,0>>, <<40862,0>>, <<40863,0>>, <<40864,15>>,
    <<40865,15>>, <<40866,15>>, <<40867,0>>, <<40868,0>>, <<40869,0>>, <<40870,30>>, <<40871,30>>, <<40872,30>>, <<40873,0>>, <<40874,0>>,
    <<40875,0>>, <<40876,9>>, <<40877,9>>, <<40878,9>>, <<40905,10>>, <<40907,10>>, <<40909,10>>, <<41291,255>>, <<41297,12>>, <<41299,80>>,
    <<41301,2>>, <<41303,0>>, <<41389,255>>, <<41395,12>>, <<41397,80>>, <<41401,0>>, <<41547,255>>, <<41559,0>>, <<41645,255>>, <<41657,0>>,
    <<45599,4>>, <<45916,0>>, <<45918,8>>, <<274,12>>, <<275,12>>, <<276,1>>, <<848,0>>, <<48369,2>>, <<16377,1>> >>

\* mode_4056x3040_regs[] (src/imx477_documentado.c:502-611), 108 entries <<address, val>>
mode_4056x3040_regs ==
  <<<<834,93>>, <<835,192>>, <<836,0>>, <<837,0>>, <<838,0>>, <<839,0>>, <<840,15>>, <<841,215>>, <<842,11>>, <<843,223>>,
    <<227,0>>, <<228,0>>, <<252,10>>, <<253,10>>, <<254,10>>, <<255,10>>, <<544,0>>, <<545,17>>, <<897,1>>, <<899,1>>,
    <<901,1>>, <<903,1>>, <<2304,0>>, <<2305,17>>, <<2306,2>>, <<12608,2>>, <<15360,0>>, <<15361,3>>, <<15362,162>>, <<16141,1>>,
    <<22344,7>>, <<22345,255>>, <<22346,0>>, <<22347,0>>, <<31605,10>>, <<31606,12>>, <<31607,7>>, <<31608,6>>, <<31609,60>>, <<31571,1>>,
    <<37737,90>>, <<37739,85>>, <<37741,40>>, <<37636,0>>, <<37637,0>>, <<40602,47>>, <<40603,47>>, <<40604,47>>, <<40605,0>>, <<40606,0>>,
    <<40607,0>>, <<41641,96>>, <<41655,0>>, <<1025,0>>, <<1028,0>>, <<1029,16>>, <<1032,0>>, <<1033,0>>, <<1034,0>>, <<1035,0>>,
    <<1036,15>>, <<1037,216>>, <<1038,11>>, <<1039,224>>, <<844,15>>, <<845,216>>, <<846,11>>, <<847,224>>, <<769,5>>, <<771,2>>,
    <<773,4>>, <<774,1>>, <<775,94>>, <<777,12>>, <<779,2>>, <<781,2>>, <<782,0>>, <<783,150>>, <<784,1>>, <<2080,7>>,
    <<2081,8>>, <<2082,0>>, <<2083,0>>, <<2058,0>>, <<2059,127>>, <<2060,0>>, <<2061,79>>, <<2062,0>>, <<2063,119>>, <<2064,0>>,
    <<2065,95>>, <<2066,0>>, <<2067,87>>, <<2068,0>>, <<2069,79>>, <<2070,1>>, <<2071,39>>, <<2072,0>>, <<2073,63>>, <<57420,0>>,
    <<57421,127>>, <<57422,0>>, <<57423,31>>, <<15904,1>>, <<15927,0>>, <<16208,0>>, <<16214,2>>, <<16215,174>> >>

\* mode_2028x1520_regs[] (src/imx477_documentado.c:614-712), 97 entries <<address, val>>
mode_2028x1520_regs ==
  <<<<834,49>>, <<835,196>>, <<836,0>>, <<837,0>>, <<838,0>>, <<839,0>>, <<840,15>>, <<841,215>>, <<842,11>>, <<843,223>>,
    <<544,0>>, <<545,17>>, <<897,1>>, <<899,1>>, <<901,1>>, <<903,1>>, <<2304,1>>, <<2305,34>>, <<2306,2>>, <<12608,2>>,
    <<15360,0>>, <<15361,3>>, <<15362,162>>, <<16141,1>>, <<22344,7>>, <<22345,255>>, <<22346,0>>, <<22347,0>>, <<31571,1>>, <<37737,115>>,
    <<37739,100>>, <<37741,95>>, <<37636,0>>, <<37637,0>>, <<40602,47>>, <<40603,47>>, <<40604,47>>, <<40605,0>>, <<40606,0>>, <<40607,0>>,
    <<41641,96>>, <<41655,0>>, <<1025,0>>, <<1028,0>>, <<1029,32>>, <<1032,0>>, <<1033,0>>, <<1034,0>>, <<1035,0>>, <<1036,15>>,
    <<1037,216>>, <<1038,11>>, <<1039,224>>, <<844,7>>, <<845,236>>, <<846,5>>, <<847,240>>, <<769,5>>, <<771,2>>, <<773,4>>,
    <<774,1>>, <<775,94>>, <<777,12>>, <<779,2>>, <<781,2>>, <<782,0>>, <<783,150>>, <<784,1>>, <<2080,7>>, <<2081,8>>,
    <<2082,0>>, <<2083,0>>, <<2058,0>>, <<2059,127>>, <<2060,0>>, <<2061,79>>, <<2062,0>>, <<2063,119>>, <<2064,0>>, <<2065,95>>,
    <<2066,0>>, <<2067,87>>, <<2068,0>>, <<2069,79>>, <<2070,1>>, <<2071,39>>, <<2072,0>>, <<2073,63>>, <<57420,0>>, <<57421,127>>,
    <<57422,0>>, <<57423,31>>, <<15904,1>>, <<15927,0>>, <<16208,0>>, <<16214,1>>, <<16215,108>> >>

\* mode_2028x1080_regs[] (src/imx477_documentado.c:715-813), 97 entries <<address, val>>
mode_2028x1080_regs ==
  <<<<834,49>>, <<835,196>>, <<836,0>>, <<837,0>>, <<838,1>>, <<839,184>>, <<840,15>>, <<841,215>>, <<842,10>>, <<843,39>>,
    <<544,0>>, <<545,17>>, <<897,1>>, <<899,1>>, <<901,1>>, <<903,1>>, <<2304,1>>, <<2305,34>>, <<2306,2>>, <<12608,2>>,
    <<15360,0>>, <<15361,3>>, <<15362,162>>, <<16141,1>>, <<22344,7>>, <<22345,255>>, <<22346,0>>, <<22347,0>>, <<31571,1>>, <<37737,115>>,
    <<37739,100>>, <<37741,95>>, <<37636,0>>, <<37637,0>>, <<40602,47>>, <<40603,47>>, <<40604,47>>, <<40605,0>>, <<40606,0>>, <<40607,0>>,
    <<41641,96>>, <<41655,0>>, <<1025,0>>, <<1028,0>>, <<1029,32>>, <<1032,0>>, <<1033,0>>, <<1034,0>>, <<1035,0>>, <<1036,15>>,
    <<1037,216>>, <<1038,4>>, <<1039,56>>, <<844,7>>, <<845,236>>, <<846,4>>, <<847,56>>, <<769,5>>, <<771,2>>, <<773,4>>,
    <<774,1>>, <<775,94>>, <<777,12>>, <<779,2>>, <<781,2>>, <<782,0>>, <<783,150>>, <<784,1>>, <<2080,7>>, <<2081,8>>,
    <<2082,0>>, <<2083,0>>, <<2058,0>>, <<2059,127>>, <<2060,0>>, <<2061,79>>, <<2062,0>>, <<2063,119>>, <<2064,0>>, <<2065,95>>,
    <<2066,0>>, <<2067,87>>, <<2068,0>>, <<2069,79>>, <<2070,1>>, <<2071,39>>, <<2072,0>>, <<2073,63>>, <<57420,0>>, <<57421,127>>,
    <<57422,0>>, <<57423,31>>, <<15904,1>>, <<15927,0>>, <<16208,0>>, <<16214,1>>, <<16215,108>> >>

\* mode_1332x990_regs[] (src/imx477_documentado.c:816-943), 126 entries <<address, val>>
mode_1332x990_regs ==
  <<<<16907,1>>, <<39180,0>>, <<39181,8>>, <<39254,140>>, <<39255,100>>, <<39256,80>>, <<39496,6>>, <<39497,6>>, <<39498,6>>, <<39499,6>>,
    <<39500,6>>, <<39501,6>>, <<274,10>>, <<275,10>>, <<276,1>>, <<834,26>>, <<835,8>>, <<832,4>>, <<833,26>>, <<836,0>>,
    <<837,0>>, <<838,2>>, <<839,16>>, <<840,15>>, <<841,215>>, <<842,9>>, <<843,207>>, <<227,0>>, <<228,0>>, <<252,10>>,
    <<253,10>>, <<254,10>>, <<255,10>>, <<57363,0>>, <<544,0>>, <<545,17>>, <<897,1>>, <<899,1>>, <<901,1>>, <<903,1>>,
    <<2304,1>>, <<2305,34>>, <<2306,2>>, <<12608,2>>, <<15360,0>>, <<15361,1>>, <<15362,156>>, <<16141,0>>, <<22344,0>>, <<22345,0>>,
    <<22346,0>>, <<22347,164>>, <<31605,14>>, <<31606,9>>, <<31607,8>>, <<31608,6>>, <<31609,52>>, <<31571,0>>, <<37737,115>>, <<37739,100>>,
    <<37741,95>>, <<37636,3>>, <<37637,128>>, <<40602,47>>, <<40603,47>>, <<40604,47>>, <<40605,0>>, <<40606,0>>, <<40607,0>>, <<41641,39>>,
    <<41655,3>>, <<1025,0>>, <<1028,0>>, <<1029,16>>, <<1032,1>>, <<1033,92>>, <<1034,0>>, <<1035,0>>, <<1036,5>>, <<1037,52>>,
    <<1038,3>>, <<1039,222>>, <<844,5>>, <<845,52>>, <<846,3>>, <<847,222>>, <<769,5>>, <<771,2>>, <<773,2>>, <<774,0>>,
    <<775,175>>, <<777,10>>, <<779,2>>, <<781,2>>, <<782,0>>, <<783,150>>, <<784,1>>, <<2080,7>>, <<2081,8>>, <<2082,0>>,
    <<2083,0>>, <<2058,0>>, <<2059,127>>, <<2060,0>>, <<2061,79>>, <<2062,0>>, <<2063,119>>, <<2064,0>>, <<2065,95>>, <<2066,0>>,
    <<2067,87>>, <<2068,0>>, <<2069,79>>, <<2070,1>>, <<2071,39>>, <<2072,0>>, <<2073,63>>, <<57420,0>>, <<57421,95>>, <<57422,0>>,
    <<57423,31>>, <<15904,1>>, <<15927,0>>, <<16208,0>>, <<16214,0>>, <<16215,191>> >>

\* imx378_regs[] (src/imx477_documentado.c:2643-2647), 3 entries <<address, val>>
imx378_regs ==
  <<<<15925,1>>, <<17441,8>>, <<16377,0>> >>

\* Register lists by name; "none" is the NULL list of imx477_compatible.
RegList(name) ==
  CASE name = "mode_common_regs" -> mode_common_regs
    [] name = "mode_4056x3040_regs" -> mode_4056x3040_regs
    [] name = "mode_2028x1520_regs" -> mode_2028x1520_regs
    [] name = "mode_2028x1080_regs" -> mode_2028x1080_regs
    [] name = "mode_1332x990_regs" -> mode_1332x990_regs
    [] name = "imx378_regs" -> imx378_regs
    [] OTHER -> << >>

RegListNames ==
  {"mode_common_regs", "mode_4056x3040_regs", "mode_2028x1520_regs",
   "mode_2028x1080_regs", "mode_1332x990_regs", "imx378_regs"}

\* struct imx477_compatible_data: chip id and extra register list.
imx477_compatible_data(c) ==
  IF c = "imx378"
    THEN [chip_id |-> IMX378_CHIP_ID, extra_regs |-> "imx378_regs"]
    ELSE [chip_id |-> IMX477_CHIP_ID, extra_regs |-> "none"]

----------------------------------------------------------------------------
\* Mode tables.

supported_modes_12bit ==
  << [width |-> 4056, height |-> 3040, line_length_pix |-> 24000,
      crop |-> [left |-> 8, top |-> 16, width |-> 4056, height |-> 3040],
      timeperframe_min |-> [numerator |-> 100, denominator |-> 1000],
      timeperframe_default |-> [numerator |-> 100, denominator |-> 1000],
      reg_list |-> "mode_4056x3040_regs"],
     [width |-> 2028, height |-> 1520, line_length_pix |-> 12740,
      crop |-> [left |-> 8, top |-> 16, width |-> 4056, height |-> 3040],
      timeperframe_min |-> [numerator |-> 100, denominator |-> 4000],
      timeperframe_default |-> [numerator |-> 100, denominator |-> 3000],
      reg_list |-> "mode_2028x1520_regs"],
     [width |-> 2028, height |-> 1080, line_length_pix |-> 12740,
      crop |-> [left |-> 8, top |-> 456, width |-> 4056, height |-> 2160],
      timeperframe_min |-> [numerator |-> 100, denominator |-> 5000],
      timeperframe_default |-> [numerator |-> 100, denominator |-> 3000],
      reg_list |-> "mode_2028x1080_regs"] >>

supported_modes_10bit ==
  << [width |-> 1332, height |-> 990, line_length_pix |-> 6664,
      crop |-> [left |-> 704, top |-> 544, width |-> 2664, height |-> 1980],
      timeperframe_min |-> [numerator |-> 100, denominator |-> 12000],
      timeperframe_default |-> [numerator |-> 100, denominator |-> 12000],
      reg_list |-> "mode_1332x990_regs"] >>

\* A mode pointer is a table and an index into it.
ModeTable(table) ==
  IF table = "10bit" THEN supported_modes_10bit ELSE supported_modes_12bit

ModeAt(p) == ModeTable(p.table)[p.idx]

ModePtrs ==
  {[table |-> "12bit", idx |-> i] : i \in DOMAIN supported_modes_12bit} \cup
  {[table |-> "10bit", idx |-> i] : i \in DOMAIN supported_modes_10bit}

\* codes[]: four entries per format, in the order no flip, h, v, h&v.
codes ==
  << "SRGGB12_1X12", "SGRBG12_1X12", "SGBRG12_1X12", "SBGGR12_1X12",
     "SRGGB10_1X10", "SGRBG10_1X10", "SGBRG10_1X10", "SBGGR10_1X10" >>

----------------------------------------------------------------------------
\* Small helpers.

Min(a, b) == IF a < b THEN a ELSE b
Max(a, b) == IF a > b THEN a ELSE b
MaxOf(S) == CHOOSE x \in S : \A y \in S : y <= x
Pow2(n) == 2 ^ n

\* get_unaligned_be32() of a 4-byte buffer.
get_unaligned_be32(b) ==
  b[1] * 16777216 + b[2] * 65536 + b[3] * 256 + b[4]

\* put_unaligned_be32(val << (8 * (4 - len))) for a u32 val: byte j of the
\* buffer is byte (len - j) of val for j <= len (higher bytes of val are
\* shifted out of the 32 bits), and zero for j > len.
put_unaligned_be32_shifted(val, len) ==
  [j \in 1..4 |-> IF j <= len THEN (val \div Pow2(8 * (len - j))) % 256 ELSE 0]

\* <<quotient, remainder>> of n * r by q for r < q, computed without leaving
\* 32 bits by halving n (the driver computes in u64).
RECURSIVE MulDivMod(_, _, _)
MulDivMod(n, r, q) ==
  IF n = 0 THEN <<0, 0>>
  ELSE LET half == MulDivMod(n \div 2, r, q)
           rest == 2 * half[2] + (n % 2) * r
       IN  <<2 * half[1] + rest \div q, rest % q>>

\* floor(n * p / q)
MulDiv(n, p, q) == n * (p \div q) + MulDivMod(n, p % q, q)[1]

----------------------------------------------------------------------------
\* The sensor at the far end of the bus.

\* Addresses of the register bytes the model keeps track of: mode select,
\* orientation and the registers behind the controls.
TrackedRegs ==
  { IMX477_REG_MODE_SELECT, IMX477_REG_ORIENTATION,
    IMX477_REG_FRAME_LENGTH, IMX477_REG_FRAME_LENGTH + 1,
    IMX477_REG_LINE_LENGTH, IMX477_REG_LINE_LENGTH + 1,
    IMX477_LONG_EXP_SHIFT_REG,
    IMX477_REG_EXPOSURE, IMX477_REG_EXPOSURE + 1,
    IMX477_REG_ANALOG_GAIN, IMX477_REG_ANALOG_GAIN + 1,
    IMX477_REG_DIGITAL_GAIN, IMX477_REG_DIGITAL_GAIN + 1,
    IMX477_REG_TEST_PATTERN, IMX477_REG_TEST_PATTERN + 1,
    IMX477_REG_TEST_PATTERN_R, IMX477_REG_TEST_PATTERN_R + 1,
    IMX477_REG_TEST_PATTERN_GR, IMX477_REG_TEST_PATTERN_GR + 1,
    IMX477_REG_TEST_PATTERN_B, IMX477_REG_TEST_PATTERN_B + 1,
    IMX477_REG_TEST_PATTERN_GB, IMX477_REG_TEST_PATTERN_GB + 1 }

\* Register file of a sensor that is off or has just been powered on:
\* -1 stands for "not programmed since power-on".
RegsReset == [a \in TrackedRegs |-> -1]

HwReset == [common_ok |-> FALSE, extra_ok |-> FALSE, common_writes |-> 0,
            stream_uninit |-> FALSE, mode_list |-> ""]

\* The sensor stores the data bytes of a write at consecutive addresses.
SensorStore(r, reg, bytes) ==
  [a \in TrackedRegs |->
     IF a >= reg /\ a < reg + Len(bytes) THEN bytes[a - reg + 1] ELSE r[a]]

\* Indices of the entries of each register list that hit a tracked byte.
TrackedIn(tbl) == {i \in DOMAIN tbl : tbl[i][1] \in TrackedRegs}

TrackedIdx ==
  [mode_common_regs |-> TrackedIn(mode_common_regs),
   mode_4056x3040_regs |-> TrackedIn(mode_4056x3040_regs),
   mode_2028x1520_regs |-> TrackedIn(mode_2028x1520_regs),
   mode_2028x1080_regs |-> TrackedIn(mode_2028x1080_regs),
   mode_1332x990_regs |-> TrackedIn(mode_1332x990_regs),
   imx378_regs |-> TrackedIn(imx378_regs)]

\* The sensor after the first n entries of a register list were stored.
SensorStoreList(r, name, n) ==
  IF name \notin RegListNames THEN r
  ELSE [a \in TrackedRegs |->
          LET hits == {i \in TrackedIdx[name] :
                         i <= n /\ RegList(name)[i][1] = a}
          IN  IF hits = {} THEN r[a] ELSE RegList(name)[MaxOf(hits)][2]]

\* Value of a 16-bit register held by the sensor (-1: not programmed).
Reg16(r, reg) ==
  IF r[reg] < 0 \/ r[reg + 1] < 0 THEN -1 ELSE r[reg] * 256 + r[reg + 1]

\* Whether the complete common block and the variant's extra block have
\* been stored since the last power-on.
CommonDone(h, c) ==
  h.common_ok /\ (imx477_compatible_data(c).extra_regs = "none" \/ h.extra_ok)

----------------------------------------------------------------------------
\* Bus and power events recorded in the log of an entry point.

WriteEv(list, idx, reg, bytes, ok) ==
  [ev |-> "write", list |-> list, idx |-> idx, reg |-> reg,
   bytes |-> bytes, ok |-> ok, fail |-> 0]

ReadEv(reg, bytes, ok) ==
  [ev |-> "read", list |-> "", idx |-> 0, reg |-> reg,
   bytes |-> bytes, ok |-> ok, fail |-> 0]

\* One run of imx477_write_regs(): entries 1..n of the list went out in order
\* (the n-th to register reg); f is the first entry whose transfer failed
\* (0: none).
ListEv(list, n, reg, f) ==
  [ev |-> "write_regs", list |-> list, idx |-> n, reg |-> reg,
   bytes |-> << >>, ok |-> (f = 0), fail |-> f]

PowerEv(name, ok) ==
  [ev |-> name, list |-> "", idx |-> 0, reg |-> 0, bytes |-> << >>, ok |-> ok,
   fail |-> 0]

----------------------------------------------------------------------------
\* Faults injected into one entry point (d.faults):
\*   "none"   every transfer succeeds
\*   "dead"   every bus transfer fails
\*   "entry"  the idx-th entry of register list `list` fails
\*   "reg"    every direct write to register `reg` fails
\*   "power"  enabling the supplies or the clock fails
NoFault == [kind |-> "none", list |-> "", idx |-> 0, reg |-> 0]
DeadBus == [kind |-> "dead", list |-> "", idx |-> 0, reg |-> 0]
PowerFault == [kind |-> "power", list |-> "", idx |-> 0, reg |-> 0]
EntryFault(list, i) == [kind |-> "entry", list |-> list, idx |-> i, reg |-> 0]
RegFault(reg) == [kind |-> "reg", list |-> "", idx |-> 0, reg |-> reg]

\* i2c_master_send() does not return the full length: the sensor is not
\* powered, or the fault plan hits this transfer.
BusFails(d, list, idx, reg) ==
  \/ ~d.powered
  \/ d.faults.kind = "dead"
  \/ d.faults.kind = "entry" /\ d.faults.list = list /\ d.faults.idx = idx
  \/ d.faults.kind = "reg" /\ list = "" /\ d.faults.reg = reg

----------------------------------------------------------------------------
\* Register program sequencer.

\* The data bytes imx477_write_reg() hands to i2c_master_send(): the first
\* len bytes of the big-endian image of val << (8 * (4 - len)) (u32).
RegBytes(len, val) ==
  SubSeq(put_unaligned_be32_shifted(val, len), 1, len)

\* Sensor-side bookkeeping of one direct register write.
HwOnWrite(d, reg, bytes) ==
  IF reg = IMX477_REG_MODE_SELECT /\ bytes = <<IMX477_MODE_STREAMING>>
     /\ ~CommonDone(d.hw, d.compatible)
    THEN [d.hw EXCEPT !.stream_uninit = TRUE]
    ELSE d.hw

\* A register write that sends the first len bytes of val unshifted.
imx477_write_reg_unshifted(d, reg, len, val) ==
  IF len > 4 THEN [d EXCEPT !.ret = -EINVAL]
  ELSE LET bytes == [j \in 1..len |-> (val \div Pow2(8 * (4 - j))) % 256]
           ok == ~BusFails(d, "", 0, reg)
       IN  [d EXCEPT !.log = Append(@, WriteEv("", 0, reg, bytes, ok)),
                     !.regs = IF ok THEN SensorStore(@, reg, bytes) ELSE @,
                     !.hw = HwOnWrite(d, reg, bytes),
                     !.ret = IF ok THEN 0 ELSE -EIO]

imx477_write_reg(d, reg, len, val) ==
  IF len > 4 THEN [d EXCEPT !.ret = -EINVAL]
  ELSE LET bytes == RegBytes(len, val)
           ok == ~BusFails(d, "", 0, reg)
       IN  [d EXCEPT !.log = Append(@, WriteEv("", 0, reg, bytes, ok)),
                     !.regs = IF ok THEN SensorStore(@, reg, bytes) ELSE @,
                     !.hw = HwOnWrite(d, reg, bytes),
                     !.ret = IF ok THEN 0 ELSE -EIO]

\* Index of the first entry of a register list whose write fails (0: none).
FirstFail(d, name) ==
  LET tbl == RegList(name)
  IN  IF tbl = << >> THEN 0
      ELSE IF BusFails(d, name, 1, tbl[1][1]) THEN 1
      ELSE IF d.faults.kind = "entry" /\ d.faults.list = name
              /\ d.faults.idx \in DOMAIN tbl
             THEN d.faults.idx
      ELSE 0

\* Sensor-side bookkeeping of a register-list write that attempted n entries
\* (hw.mode_list: the mode list written last since power-on).
HwOnList(h, name, n, allok) ==
  IF name = "mode_common_regs" /\ n > 0
    THEN [h EXCEPT !.common_writes = Min(@ + 1, 2),
                   !.common_ok = @ \/ allok]
  ELSE IF name = "imx378_regs" /\ n > 0
    THEN [h EXCEPT !.extra_ok = @ \/ allok]
  ELSE IF n > 0 THEN [h EXCEPT !.mode_list = name]
  ELSE h

\* A write loop that goes on after a failed entry.
AttemptedAll(len, f) == len

\* Number of entries of a list the loop of imx477_write_regs() attempts:
\* all of them, or up to and including the first failing one.
Attempted(len, f) == IF f = 0 THEN len ELSE f

\* A write loop whose failure leaves the sensor as it was before the list.
WriteRegsLoopRolledBack(d, name, tbl, f, n) ==
  [d EXCEPT
     !.log = IF n = 0 THEN @ ELSE Append(@, ListEv(name, n, tbl[n][1], f)),
     !.regs = IF f = 0 THEN SensorStoreList(@, name, n) ELSE @,
     !.hw = HwOnList(@, name, n, f = 0),
     !.ret = IF f = 0 THEN 0 ELSE -EIO]

\* The loop of imx477_write_regs() over the list tbl, whose first failing
\* entry is f (0: none): entries 1..n go out, the first n - 1 or n are stored.
WriteRegsLoop(d, name, tbl, f, n) ==
  [d EXCEPT
     !.log = IF n = 0 THEN @ ELSE Append(@, ListEv(name, n, tbl[n][1], f)),
     !.regs = SensorStoreList(@, name, IF f = 0 THEN n ELSE n - 1),
     !.hw = HwOnList(@, name, n, f = 0),
     !.ret = IF f = 0 THEN 0 ELSE -EIO]

WriteRegsUpTo(d, name, tbl, f) ==
  WriteRegsLoop(d, name, tbl, f, Attempted(Len(tbl), f))

\* for (i = 0; i < len; i++) { ret = write_reg(regs[i]); if (ret) return ret; }
imx477_write_regs(d, name) ==
  WriteRegsUpTo(d, name, RegList(name), FirstFail(d, name))

\* imx477_read_reg(): the sensor answers with the bytes it holds; the chip-id
\* register answers with d.chip (the chip that is really on the bus).
imx477_read_reg(d, reg, len) ==
  IF len > 4 THEN [d EXCEPT !.ret = -EINVAL, !.val = 0]
  ELSE LET ok == ~BusFails(d, "", 0, reg)
           data == RegBytes(len, d.chip)
           buf == [i \in 1..4 |-> IF i > 4 - len THEN data[i - (4 - len)] ELSE 0]
       IN  [d EXCEPT !.log = Append(@, ReadEv(reg, data, ok)),
                     !.ret = IF ok THEN 0 ELSE -EIO,
                     !.val = IF ok THEN get_unaligned_be32(buf) ELSE 0]

----------------------------------------------------------------------------
\* Power and runtime power management.

imx477_power_on(d) ==
  IF d.faults.kind = "power"
    THEN [d EXCEPT !.log = Append(@, PowerEv("power_on", FALSE)),
                   !.ret = -EIO]
    ELSE [d EXCEPT !.log = Append(@, PowerEv("power_on", TRUE)),
                   !.powered = TRUE,
                   !.regs = RegsReset,
                   !.hw = HwReset,
                   !.ret = 0]

\* A power-off that leaves common_regs_written as it is.
PowerOffKeepingFlag(d) ==
  [d EXCEPT !.log = Append(@, PowerEv("power_off", TRUE)),
            !.powered = FALSE,
            !.regs = RegsReset,
            !.hw = HwReset,
            !.ret = 0]

imx477_power_off(d) ==
  [d EXCEPT !.log = Append(@, PowerEv("power_off", TRUE)),
            !.powered = FALSE,
            !.regs = RegsReset,
            !.hw = HwReset,
            !.common_regs_written = FALSE,
            !.ret = 0]

\* The end of rpm_resume(): the device is active when the callback succeeded.
RpmResumed(d) ==
  IF d.ret < 0 THEN d ELSE [d EXCEPT !.rpm_active = TRUE, !.ret = 0]

\* pm_runtime_get_sync(): take a reference and resume the device if needed.
pm_runtime_get_sync(d) ==
  IF d.rpm_active THEN [d EXCEPT !.usage_count = @ + 1, !.ret = 1]
  ELSE RpmResumed(imx477_power_on([d EXCEPT !.usage_count = @ + 1]))

\* pm_runtime_put_noidle(): drop a reference, nothing else.
pm_runtime_put_noidle(d) ==
  [d EXCEPT !.usage_count = Max(@ - 1, 0)]

\* pm_runtime_idle(): suspend the device if nobody holds a reference.
pm_runtime_idle(d) ==
  IF d.usage_count = 0 /\ d.rpm_active
    THEN [imx477_power_off(d) EXCEPT !.rpm_active = FALSE]
    ELSE d

\* pm_runtime_put(): drop a reference; the device is suspended when it was
\* the last one.
pm_runtime_put(d) ==
  pm_runtime_idle(pm_runtime_put_noidle(d))

\* pm_runtime_get_if_in_use(): take a reference only if the device is active
\* and somebody already holds one.
pm_runtime_get_if_in_use(d) ==
  IF d.rpm_active /\ d.usage_count > 0
    THEN [d EXCEPT !.usage_count = @ + 1, !.ret = 1]
    ELSE [d EXCEPT !.ret = 0]

----------------------------------------------------------------------------
\* V4L2 controls.

\* The controls in the order imx477_init_controls() registers them.
CtrlOrder ==
  << "PIXEL_RATE", "LINK_FREQ", "VBLANK", "HBLANK", "EXPOSURE",
     "ANALOGUE_GAIN", "DIGITAL_GAIN", "HFLIP", "VFLIP", "TEST_PATTERN",
     "TEST_PATTERN_RED", "TEST_PATTERN_GREENR", "TEST_PATTERN_BLUE",
     "TEST_PATTERN_GREENB" >>

CtrlIds == {CtrlOrder[i] : i \in DOMAIN CtrlOrder}

\* v4l2_ctrl_new_std(): val is the new value (ctrl->val), cur the committed
\* value (ctrl->cur.val).
NewCtrl(min, max, def, ro) ==
  [val |-> def, cur |-> def, minimum |-> min, maximum |-> max, step |-> 1,
   def |-> def, grabbed |-> FALSE, read_only |-> ro]

\* The controls as imx477_init_controls() creates them.
CtrlsNew ==
  [id \in CtrlIds |->
     CASE id = "PIXEL_RATE" ->
            NewCtrl(IMX477_PIXEL_RATE, IMX477_PIXEL_RATE, IMX477_PIXEL_RATE, TRUE)
       [] id = "LINK_FREQ" -> NewCtrl(0, 0, 0, TRUE)
       [] id = "VBLANK" -> NewCtrl(0, 65535, 0, FALSE)
       [] id = "HBLANK" -> NewCtrl(0, 65535, 0, FALSE)
       [] id = "EXPOSURE" ->
            NewCtrl(IMX477_EXPOSURE_MIN, IMX477_EXPOSURE_MAX,
                    IMX477_EXPOSURE_DEFAULT, FALSE)
       [] id = "ANALOGUE_GAIN" ->
            NewCtrl(IMX477_ANA_GAIN_MIN, IMX477_ANA_GAIN_MAX,
                    IMX477_ANA_GAIN_DEFAULT, FALSE)
       [] id = "DIGITAL_GAIN" ->
            NewCtrl(IMX477_DGTL_GAIN_MIN, IMX477_DGTL_GAIN_MAX,
                    IMX477_DGTL_GAIN_DEFAULT, FALSE)
       [] id = "HFLIP" -> NewCtrl(0, 1, 0, FALSE)
       [] id = "VFLIP" -> NewCtrl(0, 1, 0, FALSE)
       [] id = "TEST_PATTERN" ->
            NewCtrl(0, Len(imx477_test_pattern_val) - 1, 0, FALSE)
       [] OTHER ->
            NewCtrl(IMX477_TEST_PATTERN_COLOUR_MIN,
                    IMX477_TEST_PATTERN_COLOUR_MAX,
                    IMX477_TEST_PATTERN_COLOUR_MAX, FALSE)]

\* A control value taken as requested.
ClampNone(v, min, max) == v

\* validate_new() of an integer control: the value is clamped to the range.
Clamp(v, min, max) == IF v < min THEN min ELSE IF v > max THEN max ELSE v

RECURSIVE imx477_set_ctrl(_, _)

\* new_to_cur(): the new value becomes the current one when s_ctrl succeeded.
new_to_cur(d, id) ==
  IF d.ret # 0 THEN d ELSE [d EXCEPT !.ctrl[id].cur = d.ctrl[id].val]

\* try_or_set_cluster(set = true): a grabbed control is busy; s_ctrl is
\* called only when the new value differs from the current one, and the new
\* value is committed only when s_ctrl succeeds.
try_or_set_cluster(d, id) ==
  IF d.ctrl[id].grabbed THEN [d EXCEPT !.ret = -EBUSY]
  ELSE IF d.ctrl[id].val = d.ctrl[id].cur THEN [d EXCEPT !.ret = 0]
  ELSE new_to_cur(imx477_set_ctrl(d, id), id)

\* __v4l2_ctrl_s_ctrl(): set a control from inside the driver.
v4l2_ctrl_s_ctrl(d, id, v) ==
  try_or_set_cluster(
    [d EXCEPT !.ctrl[id].val =
                Clamp(v, d.ctrl[id].minimum, d.ctrl[id].maximum)], id)

\* __v4l2_ctrl_modify_range(): install a new range; the current value is
\* clamped into it and, if that changes it, set through s_ctrl.
v4l2_ctrl_modify_range(d, id, min, max, step, def) ==
  IF step = 0 \/ min > max \/ def < min \/ def > max
    THEN [d EXCEPT !.ret = -ERANGE]
    ELSE try_or_set_cluster(
           [d EXCEPT !.ctrl[id].minimum = min,
                     !.ctrl[id].maximum = max,
                     !.ctrl[id].step = step,
                     !.ctrl[id].def = def,
                     !.ctrl[id].val = Clamp(d.ctrl[id].cur, min, max)], id)

\* __v4l2_ctrl_grab()
v4l2_ctrl_grab(d, id, grabbed) ==
  [d EXCEPT !.ctrl[id].grabbed = grabbed]

\* exposure_max = mode->height + vblank->val - IMX477_EXPOSURE_OFFSET
ExposureMax(d) ==
  ModeAt(d.mode).height + d.ctrl["VBLANK"].val - IMX477_EXPOSURE_OFFSET

imx477_adjust_exposure_range(d) ==
  v4l2_ctrl_modify_range(d, "EXPOSURE", d.ctrl["EXPOSURE"].minimum,
                         ExposureMax(d), d.ctrl["EXPOSURE"].step,
                         Min(ExposureMax(d), d.ctrl["EXPOSURE"].val))

\* The shift the loop of imx477_set_frame_length() ends with.
RECURSIVE ShiftFor(_)
ShiftFor(val) ==
  IF val > IMX477_FRAME_LENGTH_MAX THEN 1 + ShiftFor(val \div 2) ELSE 0

\* The second write of imx477_set_frame_length(), made when the first went
\* through.
WriteLongExpShift(d) ==
  IF d.ret # 0 THEN d
  ELSE imx477_write_reg(d, IMX477_LONG_EXP_SHIFT_REG, IMX477_REG_VALUE_08BIT,
                        d.long_exp_shift)

\* A set_frame_length() that writes the frame length without shifting it.
WriteFrameLengthUnshifted(d, val, s) ==
  WriteLongExpShift(
    imx477_write_reg([d EXCEPT !.long_exp_shift = s], IMX477_REG_FRAME_LENGTH,
                     IMX477_REG_VALUE_16BIT, val))

\* imx477_set_frame_length() once the loop has found the shift s.
WriteFrameLength(d, val, s) ==
  WriteLongExpShift(
    imx477_write_reg([d EXCEPT !.long_exp_shift = s], IMX477_REG_FRAME_LENGTH,
                     IMX477_REG_VALUE_16BIT, val \div Pow2(s)))

imx477_set_frame_length(d, val) == WriteFrameLength(d, val, ShiftFor(val))

\* The register write of the switch in imx477_set_ctrl().
CtrlWriteVal(d, id, v) ==
      CASE id = "ANALOGUE_GAIN" ->
             imx477_write_reg(d, IMX477_REG_ANALOG_GAIN, IMX477_REG_VALUE_16BIT, v)
        [] id = "EXPOSURE" ->
             imx477_write_reg(d, IMX477_REG_EXPOSURE, IMX477_REG_VALUE_16BIT,
                              v \div Pow2(d.long_exp_shift))
        [] id = "DIGITAL_GAIN" ->
             imx477_write_reg(d, IMX477_REG_DIGITAL_GAIN, IMX477_REG_VALUE_16BIT, v)
        [] id = "TEST_PATTERN" ->
             imx477_write_reg(d, IMX477_REG_TEST_PATTERN, IMX477_REG_VALUE_16BIT,
                              imx477_test_pattern_val[v + 1])
        [] id = "TEST_PATTERN_RED" ->
             imx477_write_reg(d, IMX477_REG_TEST_PATTERN_R, IMX477_REG_VALUE_16BIT, v)
        [] id = "TEST_PATTERN_GREENR" ->
             imx477_write_reg(d, IMX477_REG_TEST_PATTERN_GR, IMX477_REG_VALUE_16BIT, v)
        [] id = "TEST_PATTERN_BLUE" ->
             imx477_write_reg(d, IMX477_REG_TEST_PATTERN_B, IMX477_REG_VALUE_16BIT, v)
        [] id = "TEST_PATTERN_GREENB" ->
             imx477_write_reg(d, IMX477_REG_TEST_PATTERN_GB, IMX477_REG_VALUE_16BIT, v)
        [] id \in {"HFLIP", "VFLIP"} ->
             imx477_write_reg(d, IMX477_REG_ORIENTATION, 1,
                              d.ctrl["HFLIP"].val + 2 * d.ctrl["VFLIP"].val)
        [] id = "VBLANK" ->
             imx477_set_frame_length(d, ModeAt(d.mode).height + v)
        [] id = "HBLANK" ->
             imx477_write_reg(d, IMX477_REG_LINE_LENGTH, 2,
                              ModeAt(d.mode).width + v)
        [] OTHER -> [d EXCEPT !.ret = -EINVAL]

CtrlWrite(d, id) == CtrlWriteVal(d, id, d.ctrl[id].val)

\* pm_runtime_put(&client->dev); return ret;
CtrlPut(d) == [pm_runtime_put(d) EXCEPT !.ret = d.ret]

\* imx477_set_ctrl() after pm_runtime_get_if_in_use(): nothing is written
\* when the sensor is not in use.
CtrlApply(d, id) ==
  IF d.ret = 0 THEN d ELSE CtrlPut(CtrlWrite(d, id))

imx477_set_ctrl(d, id) ==
  CtrlApply(
    pm_runtime_get_if_in_use(
      IF id = "VBLANK" THEN imx477_adjust_exposure_range(d) ELSE d), id)

\* __v4l2_ctrl_handler_setup(): call s_ctrl for every control that is not
\* read-only, in registration order, with the new value reset to the
\* current one; stop at the first error.
RECURSIVE HandlerSetupFrom(_, _)

HandlerSetupNext(d, i) ==
  IF d.ret # 0 THEN d ELSE HandlerSetupFrom(d, i + 1)

HandlerSetupFrom(d, i) ==
  IF i > Len(CtrlOrder) THEN [d EXCEPT !.ret = 0]
  ELSE IF d.ctrl[CtrlOrder[i]].read_only THEN HandlerSetupFrom(d, i + 1)
  ELSE HandlerSetupNext(
         imx477_set_ctrl(
           [d EXCEPT !.ctrl[CtrlOrder[i]].val = d.ctrl[CtrlOrder[i]].cur],
           CtrlOrder[i]), i)

v4l2_ctrl_handler_setup(d) == HandlerSetupFrom(d, 1)

\* A control set by the application (VIDIOC_S_EXT_CTRLS): read-only and
\* grabbed controls are refused before anything is changed.
v4l2_s_ext_ctrl(d, id, v) ==
  IF d.ctrl[id].read_only THEN [d EXCEPT !.ret = -EINVAL]
  ELSE IF d.ctrl[id].grabbed THEN [d EXCEPT !.ret = -EBUSY]
  ELSE v4l2_ctrl_s_ctrl(d, id, v)

----------------------------------------------------------------------------
\* Format resolver and framing limits.

\* get_mode_table(): the mode table of a format code ("none": NULL).
get_mode_table(code) ==
  IF code \in {codes[i] : i \in 1..4} THEN "12bit"
  ELSE IF code \in {codes[i] : i \in 5..8} THEN "10bit"
  ELSE "none"

\* A format code made of the flip state alone, in the first group of codes[].
FormatCodeOfFlips(d, code) ==
  codes[1 + (IF d.ctrl["VFLIP"].val # 0 THEN 2 ELSE 0)
          + (IF d.ctrl["HFLIP"].val # 0 THEN 1 ELSE 0)]

\* A format code with the two flips taking each other's bit.
FormatCodeFlipsSwapped(d, code) ==
  LET found == {i \in DOMAIN codes : codes[i] = code}
      i == IF found = {} THEN 0 ELSE (CHOOSE j \in found : TRUE) - 1
      j == (i \div 4) * 4 + (IF d.ctrl["VFLIP"].val # 0 THEN 1 ELSE 0)
                          + (IF d.ctrl["HFLIP"].val # 0 THEN 2 ELSE 0)
  IN  codes[j + 1]

\* imx477_get_format_code(): index of the code in codes[] (0-based, 0 when
\* it is not found), low two bits replaced by the flip state.
imx477_get_format_code(d, code) ==
  LET found == {i \in DOMAIN codes : codes[i] = code}
      i == IF found = {} THEN 0 ELSE (CHOOSE j \in found : TRUE) - 1
      j == (i \div 4) * 4 + (IF d.ctrl["VFLIP"].val # 0 THEN 2 ELSE 0)
                          + (IF d.ctrl["HFLIP"].val # 0 THEN 1 ELSE 0)
  IN  codes[j + 1]

Abs(x) == IF x < 0 THEN -x ELSE x

\* v4l2_find_nearest_size(): the entry minimising |w - width| + |h - height|;
\* among equal errors the later entry wins, an exact match ends the search.
\* The search starts from the largest representable error.
RECURSIVE NearestFrom(_, _, _, _, _, _)
NearestFrom(tbl, w, h, i, best, min_error) ==
  IF i > Len(tbl) THEN best
  ELSE LET error == Abs(tbl[i].width - w) + Abs(tbl[i].height - h)
       IN  IF error > min_error THEN NearestFrom(tbl, w, h, i + 1, best, min_error)
           ELSE IF error = 0 THEN i
           ELSE NearestFrom(tbl, w, h, i + 1, i, error)

\* A search that stops at the first entry of the table.
FirstOfTable(table, w, h) == [table |-> table, idx |-> 1]

v4l2_find_nearest_size(table, w, h) ==
  [table |-> table, idx |-> NearestFrom(ModeTable(table), w, h, 1, 0, 2147483647)]

\* A frame length rounded up instead of down.
FrameLengthRoundedUp(m, timeperframe) ==
  LET q == timeperframe.denominator * m.line_length_pix
      frame_length == MulDiv(timeperframe.numerator, IMX477_PIXEL_RATE, q)
                      + (IF MulDivMod(timeperframe.numerator,
                                      IMX477_PIXEL_RATE % q, q)[2] = 0
                           THEN 0 ELSE 1)
  IN  Max(Min(frame_length, IMX477_FRAME_LENGTH_MAX), m.height)

imx477_get_frame_length(m, timeperframe) ==
  LET frame_length == MulDiv(timeperframe.numerator, IMX477_PIXEL_RATE,
                             timeperframe.denominator * m.line_length_pix)
  IN  Max(Min(frame_length, IMX477_FRAME_LENGTH_MAX), m.height)

\* Framing limits whose vertical-blank maximum allows one more doubling of
\* the longest frame.
FramingLimitsWide(d, m, frm_length_min, frm_length_default, hblank_min) ==
  v4l2_ctrl_s_ctrl(
    v4l2_ctrl_modify_range(
      v4l2_ctrl_s_ctrl(
        v4l2_ctrl_modify_range(
          [d EXCEPT !.long_exp_shift = 0], "VBLANK",
          frm_length_min - m.height,
          Pow2(IMX477_LONG_EXP_SHIFT_MAX + 1) * IMX477_FRAME_LENGTH_MAX - m.height,
          1, frm_length_default - m.height),
        "VBLANK", frm_length_default - m.height),
      "HBLANK", hblank_min, IMX477_LINE_LENGTH_MAX, 1, hblank_min),
    "HBLANK", hblank_min)

\* Framing limits that leave the long-exposure shift where it is.
FramingLimitsKeepShift(d, m, frm_length_min, frm_length_default, hblank_min) ==
  v4l2_ctrl_s_ctrl(
    v4l2_ctrl_modify_range(
      v4l2_ctrl_s_ctrl(
        v4l2_ctrl_modify_range(
          d, "VBLANK",
          frm_length_min - m.height,
          Pow2(IMX477_LONG_EXP_SHIFT_MAX) * IMX477_FRAME_LENGTH_MAX - m.height,
          1, frm_length_default - m.height),
        "VBLANK", frm_length_default - m.height),
      "HBLANK", hblank_min, IMX477_LINE_LENGTH_MAX, 1, hblank_min),
    "HBLANK", hblank_min)

\* Framing limits that leave the horizontal-blank value where it is.
FramingLimitsKeepHblank(d, m, frm_length_min, frm_length_default, hblank_min) ==
  v4l2_ctrl_modify_range(
    v4l2_ctrl_s_ctrl(
      v4l2_ctrl_modify_range(
        [d EXCEPT !.long_exp_shift = 0], "VBLANK",
        frm_length_min - m.height,
        Pow2(IMX477_LONG_EXP_SHIFT_MAX) * IMX477_FRAME_LENGTH_MAX - m.height,
        1, frm_length_default - m.height),
      "VBLANK", frm_length_default - m.height),
    "HBLANK", hblank_min, IMX477_LINE_LENGTH_MAX, 1, hblank_min)

\* imx477_set_framing_limits() for the mode m with its minimum and default
\* frame length.
FramingLimits(d, m, frm_length_min, frm_length_default, hblank_min) ==
  v4l2_ctrl_s_ctrl(
    v4l2_ctrl_modify_range(
      v4l2_ctrl_s_ctrl(
        v4l2_ctrl_modify_range(
          [d EXCEPT !.long_exp_shift = 0], "VBLANK",
          frm_length_min - m.height,
          Pow2(IMX477_LONG_EXP_SHIFT_MAX) * IMX477_FRAME_LENGTH_MAX - m.height,
          1, frm_length_default - m.height),
        "VBLANK", frm_length_default - m.height),
      "HBLANK", hblank_min, IMX477_LINE_LENGTH_MAX, 1, hblank_min),
    "HBLANK", hblank_min)

FramingLimitsOf(d, m) ==
  FramingLimits(d, m,
                imx477_get_frame_length(m, m.timeperframe_min),
                imx477_get_frame_length(m, m.timeperframe_default),
                m.line_length_pix - m.width)

imx477_set_framing_limits(d) == FramingLimitsOf(d, ModeAt(d.mode))

imx477_set_default_format(d) ==
  [d EXCEPT !.mode = [table |-> "12bit", idx |-> 1],
            !.fmt_code = "SRGGB12_1X12"]

\* A set_pad_format() that installs the resolved mode for try formats too.
SetResolvedFormatAnyWhich(d, which, c, m) ==
  IF d.mode # m
    THEN [imx477_set_framing_limits(
            [d EXCEPT !.fmt = [width |-> ModeAt(m).width,
                               height |-> ModeAt(m).height, code |-> c],
                      !.mode = m, !.fmt_code = c]) EXCEPT !.ret = 0]
    ELSE [d EXCEPT !.fmt = [width |-> ModeAt(m).width,
                            height |-> ModeAt(m).height, code |-> c],
                   !.ret = 0]

\* A set_pad_format() that installs the mode but keeps the stored code.
SetResolvedFormatKeepCode(d, which, c, m) ==
  IF which = "active" /\ d.mode # m
    THEN [imx477_set_framing_limits(
            [d EXCEPT !.fmt = [width |-> ModeAt(m).width,
                               height |-> ModeAt(m).height, code |-> c],
                      !.mode = m]) EXCEPT !.ret = 0]
    ELSE [d EXCEPT !.fmt = [width |-> ModeAt(m).width,
                            height |-> ModeAt(m).height, code |-> c],
                   !.ret = 0]

\* imx477_set_pad_format() once the code c and the mode m are resolved:
\* the format handed back is d.fmt; an active format that changes the mode
\* installs it and recomputes the framing limits.
SetResolvedFormat(d, which, c, m) ==
  IF which = "active" /\ d.mode # m
    THEN [imx477_set_framing_limits(
            [d EXCEPT !.fmt = [width |-> ModeAt(m).width,
                               height |-> ModeAt(m).height, code |-> c],
                      !.mode = m, !.fmt_code = c]) EXCEPT !.ret = 0]
    ELSE [d EXCEPT !.fmt = [width |-> ModeAt(m).width,
                            height |-> ModeAt(m).height, code |-> c],
                   !.ret = 0]

SetFormatCode(d, which, c, w, h) ==
  SetResolvedFormat(d, which, c, v4l2_find_nearest_size(get_mode_table(c), w, h))

\* imx477_set_pad_format() on the image pad
imx477_set_pad_format(d, which, code, w, h) ==
  SetFormatCode(d, which, imx477_get_format_code(d, code), w, h)

----------------------------------------------------------------------------
\* Streaming.

\* A trigger mode taken from the module parameter alone.
ModuleTriggerMode(d) == d.trigger_mode

\* tm = (trigger_mode_of >= 0) ? trigger_mode_of : trigger_mode
TriggerMode(d) ==
  IF d.trigger_mode_of >= 0 THEN d.trigger_mode_of ELSE d.trigger_mode

B2I(b) == IF b THEN 1 ELSE 0

\* The two defect-pixel-correction writes; their results are not looked at.
WriteDpc(d) ==
  imx477_write_reg(
    imx477_write_reg(d, IMX477_REG_DPC_1, IMX477_REG_VALUE_08BIT,
                     B2I(d.dpc_enable # 0)),
    IMX477_REG_DPC_2, IMX477_REG_VALUE_08BIT, B2I(d.dpc_enable # 0))

\* The four trigger-mode writes for trigger mode tm; their results are not
\* looked at.
WriteTriggerMode(d, tm) ==
  imx477_write_reg(
    imx477_write_reg(
      imx477_write_reg(
        imx477_write_reg(d, IMX477_REG_MC_MODE, IMX477_REG_VALUE_08BIT,
                         B2I(tm > 0)),
        IMX477_REG_MS_SEL, IMX477_REG_VALUE_08BIT, B2I(tm <= 1)),
      IMX477_REG_XVS_IO_CTRL, IMX477_REG_VALUE_08BIT, B2I(tm = 1)),
    IMX477_REG_EXTOUT_EN, IMX477_REG_VALUE_08BIT, B2I(tm = 1))

WriteTrigger(d) == WriteTriggerMode(d, TriggerMode(d))

\* imx477->common_regs_written = true, reached when both lists went through.
CommonWritten(d) ==
  IF d.ret # 0 THEN d ELSE [d EXCEPT !.common_regs_written = TRUE]

\* The variant's extra list, written when the common list went through.
WriteExtra(d) ==
  IF d.ret # 0 THEN d
  ELSE imx477_write_regs(d, imx477_compatible_data(d.compatible).extra_regs)

\* The common block of imx477_start_streaming(): common list, then the
\* variant's extra list, then common_regs_written = true.
WriteCommon(d) ==
  CommonWritten(WriteExtra(imx477_write_regs(d, "mode_common_regs")))

\* A start sequence that writes the common block every time.
AlwaysNeedCommon(d) == TRUE

\* Whether imx477_start_streaming() has to write the common block.
NeedCommon(d) == ~d.common_regs_written

\* The steps of imx477_start_streaming(), last one first; each takes the
\* state the step before it left behind.

\* Trigger-mode writes, then "set stream on register".
StartSelectStreaming(d) ==
  IF d.ret # 0 THEN d
  ELSE imx477_write_reg(WriteTrigger(d), IMX477_REG_MODE_SELECT,
                        IMX477_REG_VALUE_08BIT, IMX477_MODE_STREAMING)

\* Defect-pixel correction, then __v4l2_ctrl_handler_setup().
StartControls(d) ==
  IF d.ret # 0 THEN d
  ELSE StartSelectStreaming(v4l2_ctrl_handler_setup(WriteDpc(d)))

\* "Apply default values of current mode": the register list of the mode.
StartModeRegs(d) ==
  IF d.ret # 0 THEN d
  ELSE StartControls(imx477_write_regs(d, ModeAt(d.mode).reg_list))

imx477_start_streaming(d) ==
  StartModeRegs(IF NeedCommon(d) THEN WriteCommon(d) ELSE [d EXCEPT !.ret = 0])

imx477_stop_streaming(d) ==
  imx477_write_reg(
    imx477_write_reg(d, IMX477_REG_MODE_SELECT, IMX477_REG_VALUE_08BIT,
                     IMX477_MODE_STANDBY),
    IMX477_REG_EXTOUT_EN, IMX477_REG_VALUE_08BIT, 0)

\* A set_stream() without the early return.
NeverSameStreamState(d, enable) == FALSE

\* if (imx477->streaming == enable) return 0;
SameStreamState(d, enable) == d.streaming = enable

\* A set_stream() that does not touch the flip controls.
SetStreamingFlagOnly(d, enable) == [d EXCEPT !.streaming = enable]

\* imx477->streaming = enable; grab or release both flip controls.
SetStreamingFlag(d, enable) ==
  v4l2_ctrl_grab(
    v4l2_ctrl_grab([d EXCEPT !.streaming = enable], "VFLIP", enable),
    "HFLIP", enable)

\* err_rpm_put: of imx477_set_stream()
err_rpm_put(d) == [pm_runtime_put(d) EXCEPT !.ret = d.ret]

\* imx477_set_stream(1) after imx477_start_streaming()
StreamStarted(d, enable) ==
  IF d.ret # 0 THEN err_rpm_put(d) ELSE SetStreamingFlag(d, enable)

\* imx477_set_stream(1) after pm_runtime_get_sync()
StreamPowered(d, enable) ==
  IF d.ret < 0 THEN [pm_runtime_put_noidle(d) EXCEPT !.ret = d.ret]
  ELSE StreamStarted(imx477_start_streaming(d), enable)

imx477_set_stream(d, enable) ==
  IF SameStreamState(d, enable) THEN [d EXCEPT !.ret = 0]
  ELSE IF enable THEN StreamPowered(pm_runtime_get_sync(d), enable)
  ELSE [SetStreamingFlag(pm_runtime_put(imx477_stop_streaming(d)), enable)
          EXCEPT !.ret = 0]

\* A suspend that clears the flag after the stop sequence.
SuspendClearingFlag(d) ==
  IF d.streaming
    THEN [imx477_stop_streaming(d) EXCEPT !.streaming = FALSE, !.ret = 0]
    ELSE [d EXCEPT !.ret = 0]

imx477_suspend(d) ==
  IF d.streaming THEN [imx477_stop_streaming(d) EXCEPT !.ret = 0]
  ELSE [d EXCEPT !.ret = 0]

\* A resume that leaves the flag set when the start sequence failed.
ResumeStartedKeepingFlag(d) ==
  IF d.ret # 0 THEN [imx477_stop_streaming(d) EXCEPT !.ret = d.ret]
  ELSE [d EXCEPT !.ret = 0]

\* imx477_resume() after imx477_start_streaming(); on failure the error:
\* label stops the stream and clears the flag.
ResumeStarted(d) ==
  IF d.ret # 0
    THEN [imx477_stop_streaming(d) EXCEPT !.streaming = FALSE, !.ret = d.ret]
    ELSE [d EXCEPT !.ret = 0]

imx477_resume(d) ==
  IF d.streaming THEN ResumeStarted(imx477_start_streaming(d))
  ELSE [d EXCEPT !.ret = 0]

----------------------------------------------------------------------------
\* Attach and removal.

\* imx477_identify_module() after the read of the chip id.
\* An identification that accepts whatever chip answers.
CheckChipIdAny(d, expected_id) ==
  IF d.ret # 0 THEN d ELSE [d EXCEPT !.ret = 0]

CheckChipId(d, expected_id) ==
  IF d.ret # 0 THEN d
  ELSE IF d.val # expected_id THEN [d EXCEPT !.ret = -EIO]
  ELSE [d EXCEPT !.ret = 0]

imx477_identify_module(d, expected_id) ==
  CheckChipId(imx477_read_reg(d, IMX477_REG_CHIP_ID, IMX477_REG_VALUE_16BIT),
              expected_id)

\* imx477_init_controls(): create the controls, then set the framing limits
\* of the default mode.  d.probe_fail = "controls" makes the creation fail.
imx477_init_controls(d) ==
  IF d.probe_fail = "controls" THEN [d EXCEPT !.ret = -EINVAL]
  ELSE [imx477_set_framing_limits([d EXCEPT !.ctrl = CtrlsNew]) EXCEPT !.ret = 0]

\* error_power_off: of imx477_probe()
ProbeErrorPowerOff(d, err) ==
  [imx477_power_off([d EXCEPT !.rpm_active = FALSE])
     EXCEPT !.ret = err, !.dev = "failed"]

\* The steps of imx477_probe(), last one first.

\* After imx477_init_controls(): media pads and sub-device registration.
ProbeRegister(d) ==
  IF d.ret # 0 THEN ProbeErrorPowerOff(d, d.ret)
  ELSE IF d.probe_fail \in {"pads", "register"}
    THEN ProbeErrorPowerOff(d, -EINVAL)
  ELSE [d EXCEPT !.ret = 0, !.dev = "bound"]

\* After imx477_identify_module(): default format, runtime PM switched on
\* (the idle sensor is powered off), controls.
ProbeIdentified(d) ==
  IF d.ret # 0 THEN ProbeErrorPowerOff(d, d.ret)
  ELSE ProbeRegister(
         imx477_init_controls(
           pm_runtime_idle(
             [imx477_set_default_format(d) EXCEPT !.rpm_active = TRUE])))

\* After imx477_power_on()
ProbePowered(d) ==
  IF d.ret # 0 THEN [d EXCEPT !.dev = "failed"]
  ELSE ProbeIdentified(
         imx477_identify_module(d, imx477_compatible_data(d.compatible).chip_id))

imx477_probe(d) ==
  IF d.probe_fail = "hwcfg" THEN [d EXCEPT !.ret = -EINVAL, !.dev = "failed"]
  ELSE ProbePowered(imx477_power_on(d))

imx477_remove(d) ==
  [(IF d.rpm_active THEN imx477_power_off(d) ELSE d)
     EXCEPT !.rpm_active = FALSE, !.dev = "removed", !.ret = 0]

----------------------------------------------------------------------------
\* State machine.

\* A reference count of MaxUsage is never exceeded (guard of SetStream).
MaxUsage == 2

NullMode == [table |-> "none", idx |-> 0]

\* Threads that call into the driver, none of them inside it.
Threads == {"t1", "t2"}
NoCall == [entry |-> "", step |-> 0]
NoCalls == [t \in Threads |-> NoCall]
NoFmt == [width |-> 0, height |-> 0, code |-> ""]

\* CameraTestApp before capureImage(): no request queued, nobody waiting.
AppNew ==
  [main |-> "start", cb |-> "idle", requestResult |-> FALSE,
   status |-> "none", mtx |-> "free", waiting |-> FALSE, left |-> 0,
   frames |-> 0, out |-> << >>]

\* Device-tree and module-parameter configurations.
Configs ==
  { [compatible |-> "imx477", trigger_mode_of |-> -1, trigger_mode |-> 0, dpc_enable |-> 1],
    [compatible |-> "imx378", trigger_mode_of |-> 2, trigger_mode |-> 1, dpc_enable |-> 0] }

\* Chips that may answer on the bus at attach.
Chips == {IMX477_CHIP_ID, IMX378_CHIP_ID}

\* Stages of imx477_probe() that can fail besides power and bus.
ProbeFails == {"none", "hwcfg", "controls", "pads", "register"}

\* Directly written registers a fault can be placed on: the mode select, a
\* control, and one each of the defect-correction, trigger and output-enable
\* writes.
DirectRegs ==
  { IMX477_REG_MODE_SELECT, IMX477_REG_ORIENTATION, IMX477_REG_MC_MODE,
    IMX477_REG_EXTOUT_EN, IMX477_REG_DPC_1 }

\* Entries of a register list a fault can be placed on: the first entry of
\* any list; of the common block also entries 2..MaxFailIdx and the 10th.
FailIdx(name) ==
  {i \in DOMAIN RegList(name) :
     \/ i = 1
     \/ name = "mode_common_regs" /\ (i <= MaxFailIdx \/ i = 10)}

\* Register lists the device can write in its present configuration.
ListsInUse ==
  {"mode_common_regs", imx477_compatible_data(compatible).extra_regs} \cup
  (IF mode = NullMode THEN {} ELSE {ModeAt(mode).reg_list})

\* Faults on the direct writes to the registers of R.
RegFaults(R) == {NoFault, DeadBus} \cup {RegFault(r) : r \in R}

StopRegs == {IMX477_REG_MODE_SELECT, IMX477_REG_EXTOUT_EN}

StartFaults ==
  RegFaults(DirectRegs) \cup {PowerFault} \cup
  UNION {{EntryFault(l, i) : i \in FailIdx(l)} :
           l \in ListsInUse \cap RegListNames}

\* Faults that can show during imx477_set_stream(enable): none when the call
\* returns at once, those of the stop sequence when it disables.
StreamFaults(enable) ==
  IF enable = streaming THEN {NoFault}
  ELSE IF enable THEN StartFaults ELSE RegFaults(StopRegs)

\* Faults that can show during imx477_suspend() and imx477_resume(): the
\* callbacks touch the bus only while streaming is set.
SuspendFaults == IF streaming THEN RegFaults(StopRegs) ELSE {NoFault}
ResumeFaults ==
  IF streaming
    THEN RegFaults(DirectRegs) \cup
         {EntryFault(ModeAt(mode).reg_list, i) :
            i \in FailIdx(ModeAt(mode).reg_list)}
    ELSE {NoFault}

\* Control requests of the application.
CtrlInputs ==
  { <<"VBLANK", 70000>>, <<"HFLIP", 1>>, <<"VFLIP", 1>> }

\* Format requests of the application: <<which, code, width, height>>.
FormatInputs ==
  { <<"active", "SRGGB12_1X12", 4056, 3040>>,
    <<"active", "SRGGB10_1X10", 1332, 990>> }

\* The driver state an entry point starts from, with its inputs.
Drv(f) ==
  [dev |-> dev, compatible |-> compatible, trigger_mode_of |-> trigger_mode_of,
   trigger_mode |-> trigger_mode, dpc_enable |-> dpc_enable,
   streaming |-> streaming, common_regs_written |-> common_regs_written,
   long_exp_shift |-> long_exp_shift, mode |-> mode, fmt_code |-> fmt_code,
   ctrl |-> ctrl, usage_count |-> usage_count, rpm_active |-> rpm_active,
   powered |-> powered, regs |-> regs, hw |-> hw,
   log |-> << >>, ret |-> 0, faults |-> f, chip |-> 0, val |-> 0,
   fmt |-> NoFmt, probe_fail |-> "none"]

\* What the formulas need to know about the state an entry point started in.
Pre ==
  [streaming |-> streaming, common_regs_written |-> common_regs_written,
   usage_count |-> usage_count, powered |-> powered]

Op(name, enable, id, v) ==
  [name |-> name, enable |-> enable, id |-> id, v |-> v, pre |-> Pre]

Commit(d, o) ==
  \E r \in {d} :
    /\ dev' = r.dev
    /\ streaming' = r.streaming
    /\ common_regs_written' = r.common_regs_written
    /\ long_exp_shift' = r.long_exp_shift
    /\ mode' = r.mode
    /\ fmt_code' = r.fmt_code
    /\ ctrl' = r.ctrl
    /\ usage_count' = r.usage_count
    /\ rpm_active' = r.rpm_active
    /\ powered' = r.powered
    /\ regs' = r.regs
    /\ hw' = r.hw
    /\ log' = r.log
    /\ fmt' = r.fmt
    /\ ret' = r.ret
    /\ op' = o
    /\ UNCHANGED <<compatible, trigger_mode_of, trigger_mode, dpc_enable,
                   mutex, pc, app>>

Init ==
  /\ dev = "unbound"
  /\ \E c \in Configs :
       /\ compatible = c.compatible
       /\ trigger_mode_of = c.trigger_mode_of
       /\ trigger_mode = c.trigger_mode
       /\ dpc_enable = c.dpc_enable
  /\ streaming = FALSE
  /\ common_regs_written = FALSE
  /\ long_exp_shift = 0
  /\ mode = NullMode
  /\ fmt_code = ""
  /\ ctrl = CtrlsNew
  /\ usage_count = 0
  /\ rpm_active = FALSE
  /\ powered = FALSE
  /\ regs = RegsReset
  /\ hw = HwReset
  /\ sys_suspended = FALSE
  /\ log = << >>
  /\ fmt = NoFmt
  /\ ret = 0
  /\ op = [name |-> "init", enable |-> FALSE, id |-> "", v |-> 0,
           pre |-> [streaming |-> FALSE, common_regs_written |-> FALSE,
                    usage_count |-> 0, powered |-> FALSE]]
  /\ mutex = "free"
  /\ pc = NoCalls
  /\ app = AppNew

\* imx477_probe()
Probe ==
  /\ dev = "unbound"
  /\ \E chip \in Chips, pf \in ProbeFails,
        f \in {NoFault, DeadBus, PowerFault} :
       Commit(imx477_probe([Drv(f) EXCEPT !.chip = chip, !.probe_fail = pf]),
              Op("probe", FALSE, pf, chip))
  /\ UNCHANGED sys_suspended

\* imx477_remove()
Remove ==
  /\ dev = "bound"
  /\ ~sys_suspended
  /\ Commit(imx477_remove(Drv(NoFault)), Op("remove", FALSE, "", 0))
  /\ UNCHANGED sys_suspended

\* imx477_set_stream(sd, enable)
SetStream ==
  /\ dev = "bound"
  /\ ~sys_suspended
  /\ \E enable \in BOOLEAN :
       /\ enable => usage_count < MaxUsage
       /\ \E f \in StreamFaults(enable) :
            Commit(imx477_set_stream(Drv(f), enable),
                 Op("set_stream", enable, "", 0))
  /\ UNCHANGED sys_suspended

\* A control set by the application, ending in imx477_set_ctrl().
SetCtrl ==
  /\ dev = "bound"
  /\ ~sys_suspended
  /\ \E in \in CtrlInputs :
       Commit(v4l2_s_ext_ctrl(Drv(NoFault), in[1], in[2]),
              Op("set_ctrl", FALSE, in[1], in[2]))
  /\ UNCHANGED sys_suspended

\* imx477_set_pad_format() on the image pad
SetFormat ==
  /\ dev = "bound"
  /\ ~sys_suspended
  /\ \E in \in FormatInputs :
       Commit(imx477_set_pad_format(Drv(NoFault), in[1], in[2], in[3], in[4]),
              Op("set_fmt", in[1] = "active", in[2], in[3]))
  /\ UNCHANGED sys_suspended

\* imx477_suspend()
Suspend ==
  /\ dev = "bound"
  /\ ~sys_suspended
  /\ \E f \in SuspendFaults :
       Commit(imx477_suspend(Drv(f)), Op("suspend", FALSE, "", 0))
  /\ sys_suspended' = TRUE

\* imx477_resume()
Resume ==
  /\ dev = "bound"
  /\ sys_suspended
  /\ \E f \in ResumeFaults :
       Commit(imx477_resume(Drv(f)), Op("resume", FALSE, "", 0))
  /\ sys_suspended' = FALSE

Next ==
  \/ Probe
  \/ Remove
  \/ SetStream
  \/ SetCtrl
  \/ SetFormat
  \/ Suspend
  \/ Resume

Spec == Init /\ [][Next]_vars

TypeOK ==
  /\ dev \in {"unbound", "bound", "failed", "removed"}
  /\ streaming \in BOOLEAN
  /\ common_regs_written \in BOOLEAN
  /\ long_exp_shift \in 0..IMX477_LONG_EXP_SHIFT_MAX
  /\ usage_count \in 0..(MaxUsage + 1)
  /\ mode \in ModePtrs \cup {NullMode}


----------------------------------------------------------------------------
\* Vocabulary of the properties.

\* The fields of the driver and of the sensor, without the record of the
\* last entry point (log, ret, op).
DriverState ==
  <<dev, streaming, common_regs_written, long_exp_shift, mode, fmt_code, ctrl,
    usage_count, rpm_active, powered, regs, hw>>

IsWrite(e) == e.ev \in {"write", "write_regs"}

\* Positions in the log of the last entry point.
Writes == {i \in DOMAIN log : IsWrite(log[i])}
FailedWrites == {i \in Writes : ~log[i].ok}
PowerOns == {i \in DOMAIN log : log[i].ev = "power_on"}
PowerOffs == {i \in DOMAIN log : log[i].ev = "power_off"}

\* The write at position i is where the sequence ended: a list write stopped
\* at its failing entry and no write follows it.
AbortedAt(i) ==
  /\ log[i].ev = "write_regs" => log[i].idx = log[i].fail
  /\ \A j \in Writes : j <= i

\* The last entry point was imx477_set_stream(1) with the flag clear.
StartFromStandby == op.name = "set_stream" /\ op.enable /\ ~op.pre.streaming

\* The last entry point was imx477_set_stream(0) with the flag set.
StopFromStreaming == op.name = "set_stream" /\ ~op.enable /\ op.pre.streaming

----------------------------------------------------------------------------
\* C1: during set_stream(1) from Standby, the failure of any register write
\* of the start sequence aborts the sequence at that write, powers the sensor
\* off, returns the error and leaves the streaming flag false.  (Stated for
\* the ordinary Standby, in which no power reference is held.)
C1_AnyFailedWriteAborts ==
  (StartFromStandby /\ op.pre.usage_count = 0) =>
    \A i \in FailedWrites :
      /\ AbortedAt(i)
      /\ PowerOffs # {}
      /\ ret < 0
      /\ ~streaming

\* C2: when the k-th write of the common block fails during set_stream(1)
\* from Standby, no later register is written, the error is returned, the
\* flag stays false, power-off runs exactly once and common_regs_written is
\* false afterwards.
C2_CommonBlockFailure ==
  StartFromStandby =>
    \A i \in FailedWrites :
      log[i].list = "mode_common_regs" =>
        /\ AbortedAt(i)
        /\ ret = -EIO
        /\ ~streaming
        /\ Cardinality(PowerOffs) = 1
        /\ \A j \in PowerOffs : j > i
        /\ ~powered
        /\ ~common_regs_written

\* C2 witness: the 10th write of the common block failed.
C2_Witness ==
  /\ StartFromStandby
  /\ \E i \in FailedWrites :
       log[i].list = "mode_common_regs" /\ log[i].fail = 10
  /\ ret = -EIO

\* C3: set_stream(1) while the flag is already set returns 0, makes no power
\* call and no register write, and changes no field of the driver or sensor.
C3_StartIsIdempotent ==
  [][(op'.name = "set_stream" /\ op'.enable /\ streaming) =>
       (ret' = 0 /\ log' = << >> /\ UNCHANGED DriverState)]_vars

\* C3 witness: a second set_stream(1) was answered after a first one had run
\* the register program.
C3_Witness ==
  /\ op.name = "set_stream" /\ op.enable /\ op.pre.streaming
  /\ streaming /\ ret = 0 /\ log = << >>
  /\ regs[IMX477_REG_MODE_SELECT] = IMX477_MODE_STREAMING

----------------------------------------------------------------------------
\* Steps of the start sequence an event of the log belongs to.
DpcRegs == {IMX477_REG_DPC_1, IMX477_REG_DPC_2}

TriggerRegs ==
  {IMX477_REG_MC_MODE, IMX477_REG_MS_SEL, IMX477_REG_XVS_IO_CTRL,
   IMX477_REG_EXTOUT_EN}

Phase(e) ==
  CASE e.ev = "power_on" -> 1
    [] e.ev = "write_regs" /\ e.list = "mode_common_regs" -> 2
    [] e.ev = "write_regs" /\ e.list = "imx378_regs" -> 3
    [] e.ev = "write_regs" -> 4
    [] e.ev = "write" /\ e.reg \in DpcRegs -> 5
    [] e.ev = "write" /\ e.reg \in TriggerRegs -> 7
    [] e.ev = "write" /\ e.reg = IMX477_REG_MODE_SELECT -> 8
    [] e.ev = "write" -> 6
    [] OTHER -> 9

\* Registers written in step p, in the order of the log.
RegsOfPhase(p) ==
  LET sel == SelectSeq(log, LAMBDA e : Phase(e) = p)
  IN  [i \in DOMAIN sel |-> sel[i].reg]

ListsOfPhase(p) ==
  LET sel == SelectSeq(log, LAMBDA e : Phase(e) = p)
  IN  [i \in DOMAIN sel |-> sel[i].list]

\* Registers behind the writable controls, in control-registration order.
ReplayRegs ==
  << IMX477_REG_FRAME_LENGTH, IMX477_LONG_EXP_SHIFT_REG, IMX477_REG_LINE_LENGTH,
     IMX477_REG_EXPOSURE, IMX477_REG_ANALOG_GAIN, IMX477_REG_DIGITAL_GAIN,
     IMX477_REG_ORIENTATION, IMX477_REG_ORIENTATION, IMX477_REG_TEST_PATTERN,
     IMX477_REG_TEST_PATTERN_R, IMX477_REG_TEST_PATTERN_GR,
     IMX477_REG_TEST_PATTERN_B, IMX477_REG_TEST_PATTERN_GB >>

\* The register part of a complete start sequence, as the log shows it: mode
\* program, defect-pixel correction, controls, trigger mode, mode select.
StartProgramInOrder ==
  /\ \A i, j \in DOMAIN log : i < j => Phase(log[i]) <= Phase(log[j])
  /\ ListsOfPhase(4) = <<ModeAt(mode).reg_list>>
  /\ RegsOfPhase(5) = <<IMX477_REG_DPC_1, IMX477_REG_DPC_2>>
  /\ RegsOfPhase(6) = ReplayRegs
  /\ RegsOfPhase(7) = <<IMX477_REG_MC_MODE, IMX477_REG_MS_SEL,
                        IMX477_REG_XVS_IO_CTRL, IMX477_REG_EXTOUT_EN>>
  /\ RegsOfPhase(8) = <<IMX477_REG_MODE_SELECT>>
  /\ log[Len(log)].bytes = <<IMX477_MODE_STREAMING>>
  /\ RegsOfPhase(9) = << >>

\* The common block went out, with the variant's extra block behind it, iff
\* common_regs_written was false when the entry point began.
CommonBlockIffNeeded ==
  /\ ListsOfPhase(2) =
       (IF op.pre.common_regs_written THEN << >> ELSE <<"mode_common_regs">>)
  /\ ListsOfPhase(3) =
       (IF op.pre.common_regs_written
           \/ imx477_compatible_data(compatible).extra_regs = "none"
          THEN << >> ELSE <<"imx378_regs">>)
  /\ common_regs_written

\* C4: a successful set_stream(1) from Standby powers the sensor on first,
\* then writes the common and extra block (only if common_regs_written was
\* false), the mode program, the two defect-pixel registers, the controls in
\* registration order, the four trigger registers and, last of all,
\* mode select = streaming.
C4_StartOrder ==
  (StartFromStandby /\ ret = 0) =>
    /\ streaming
    /\ Len(log) > 0 /\ log[1].ev = "power_on" /\ PowerOns = {1}
    /\ CommonBlockIffNeeded
    /\ StartProgramInOrder

\* The same order, in the ordinary Standby in which no power reference is
\* held when the call begins.
StartOrderWithoutHeldReference ==
  (StartFromStandby /\ ret = 0 /\ op.pre.usage_count = 0) =>
    /\ streaming
    /\ Len(log) > 0 /\ log[1].ev = "power_on" /\ PowerOns = {1}
    /\ CommonBlockIffNeeded
    /\ StartProgramInOrder

\* The log of imx477_stop_streaming(): mode select = standby, then
\* external-output-enable = 0, whatever became of either transfer.
IsStopProgram(l) ==
  /\ Len(l) >= 2
  /\ l[1].ev = "write" /\ l[1].reg = IMX477_REG_MODE_SELECT
  /\ l[1].bytes = <<IMX477_MODE_STANDBY>>
  /\ l[2].ev = "write" /\ l[2].reg = IMX477_REG_EXTOUT_EN
  /\ l[2].bytes = <<0>>

\* C5: set_stream(0) while streaming writes mode select = standby, then
\* external-output-enable = 0, then powers the sensor off and clears the
\* flag; so also when either write fails, and the call returns 0.
C5_StopOrder ==
  StopFromStreaming =>
    /\ IsStopProgram(log)
    /\ Len(log) = 3 /\ log[3].ev = "power_off"
    /\ ~powered
    /\ ~streaming
    /\ ret = 0

\* The same, when the reference dropped by the call is the only one held.
StopOrderWithSingleReference ==
  (StopFromStreaming /\ op.pre.usage_count = 1) =>
    /\ IsStopProgram(log)
    /\ Len(log) = 3 /\ log[3].ev = "power_off"
    /\ ~powered
    /\ ~streaming
    /\ ret = 0

----------------------------------------------------------------------------
\* C6: every write of mode select = streaming comes after a complete write
\* of the common block (and of the variant's extra block) since the last
\* power-on, and the common block is written at most once between a power-on
\* and the next power-off, stop/start and suspend/resume cycles included.
\* (hw.stream_uninit records a streaming write to a sensor that lacks the
\* blocks; hw.common_writes counts the common-block writes since power-on.)
C6_CommonBlockOncePerPowerCycle ==
  /\ ~hw.stream_uninit
  /\ hw.common_writes <= 1
  /\ regs[IMX477_REG_MODE_SELECT] = IMX477_MODE_STREAMING =>
       CommonDone(hw, compatible)

\* C6 witness: a resume re-ran the start sequence on a sensor that stayed
\* powered, and the common block had gone out once.
C6_Witness ==
  /\ op.name = "resume" /\ op.pre.streaming /\ ret = 0
  /\ regs[IMX477_REG_MODE_SELECT] = IMX477_MODE_STREAMING
  /\ hw.common_writes = 1

\* C7: whenever the sensor is powered off, common_regs_written is false.
C7_PowerOffResetsFlag == ~powered => ~common_regs_written

\* C7 witness: a call that began with the flag set has powered the sensor
\* off.
C7_Witness ==
  /\ op.pre.common_regs_written /\ op.pre.powered
  /\ PowerOffs # {}
  /\ ~powered

C9_Resume ==
  op.name = "resume" =>
    IF op.pre.streaming
      THEN /\ log # << >>
           /\ log[1].ev = "write_regs" /\ log[1].list = ModeAt(mode).reg_list
           /\ PowerOns = {}
           /\ ret = 0 => streaming /\ StartProgramInOrder
           /\ ret # 0 =>
                /\ ~streaming
                /\ ret = -EIO
                /\ Len(log) >= 3
                /\ IsWrite(log[Len(log) - 2]) /\ ~log[Len(log) - 2].ok
                /\ IsStopProgram(SubSeq(log, Len(log) - 1, Len(log)))
      ELSE ret = 0 /\ log = << >> /\ ~streaming

\* C9 witness: a resume whose start sequence failed.
C9_Witness ==
  /\ op.name = "resume" /\ op.pre.streaming
  /\ ret = -EIO /\ ~streaming

\* C10: suspend never changes the streaming flag: with the flag set it makes
\* the two stop writes and leaves the flag set, with the flag clear it writes
\* nothing; the mode, the controls and long_exp_shift stay as they are.
C10_SuspendKeepsState ==
  [][(~sys_suspended /\ sys_suspended') =>
       /\ streaming' = streaming
       /\ UNCHANGED <<mode, fmt_code, ctrl, long_exp_shift>>
       /\ ret' = 0
       /\ IF streaming THEN IsStopProgram(log') /\ Len(log') = 2
                       ELSE log' = << >>]_vars

\* C10 witness: the sensor was suspended while streaming with a long
\* exposure shift in force.
C10_Witness ==
  /\ op.name = "suspend" /\ op.pre.streaming
  /\ streaming /\ sys_suspended
  /\ long_exp_shift > 0
  /\ IsStopProgram(log)

----------------------------------------------------------------------------
\* Frame timing.  The driver with every bus transfer succeeding, driven with
\* vertical-blank, exposure and active-format requests over their range.

\* The long-exposure shift steps at the frame lengths
\* IMX477_FRAME_LENGTH_MAX * 2^k; the requests reach the steps k = 0 ..
\* MaxShiftStep from both sides, and the largest frame length of all.
MaxShiftStep == 0

\* Frame lengths asked for: around the steps, the largest the vertical-blank
\* range admits, and one beyond it.
FrameLengthInputs ==
  {IMX477_FRAME_LENGTH_MAX * Pow2(k) + e : k \in 0..MaxShiftStep, e \in {0, 1}}
  \cup {Pow2(IMX477_LONG_EXP_SHIFT_MAX) * IMX477_FRAME_LENGTH_MAX + e : e \in {0, 1}}

\* The default vertical blanking of the 2028x1520 mode.
OtherDefaultVblank ==
  imx477_get_frame_length(supported_modes_12bit[2],
                          supported_modes_12bit[2].timeperframe_default)
    - supported_modes_12bit[2].height

\* Vertical-blank requests in the current mode.
VblankInputs ==
  {OtherDefaultVblank} \cup {L - ModeAt(mode).height : L \in FrameLengthInputs}

\* Exposure requests: the default and one beyond any maximum.
ExposureInputs ==
  {IMX477_EXPOSURE_DEFAULT,
   Pow2(IMX477_LONG_EXP_SHIFT_MAX) * IMX477_FRAME_LENGTH_MAX}

\* Active format requests: the exact size of every mode with its bit depth.
\* A line of 24000 + 56 pixels in the largest mode: a horizontal blanking
\* every mode admits.
HblankInputs == {supported_modes_12bit[1].line_length_pix
                   - supported_modes_12bit[1].width + 56}

ModeInputs ==
  {<<IF p.table = "10bit" THEN codes[5] ELSE codes[1],
     ModeAt(p).width, ModeAt(p).height>> : p \in ModePtrs}

\* imx477_probe() of the chip the device tree names, nothing failing.
AttachOk ==
  /\ dev = "unbound"
  /\ Commit(imx477_probe([Drv(NoFault) EXCEPT
                            !.chip = imx477_compatible_data(compatible).chip_id]),
            Op("probe", FALSE, "none",
               imx477_compatible_data(compatible).chip_id))
  /\ UNCHANGED sys_suspended

\* imx477_set_stream(sd, enable)
StreamOk ==
  /\ dev = "bound"
  /\ \E enable \in BOOLEAN :
       Commit(imx477_set_stream(Drv(NoFault), enable),
              Op("set_stream", enable, "", 0))
  /\ UNCHANGED sys_suspended

\* V4L2_CID_VBLANK set by the application
SetVblank ==
  /\ dev = "bound"
  /\ \E v \in VblankInputs :
       Commit(v4l2_s_ext_ctrl(Drv(NoFault), "VBLANK", v),
              Op("set_ctrl", FALSE, "VBLANK", v))
  /\ UNCHANGED sys_suspended

\* V4L2_CID_EXPOSURE set by the application
SetExposure ==
  /\ dev = "bound"
  /\ \E v \in ExposureInputs :
       Commit(v4l2_s_ext_ctrl(Drv(NoFault), "EXPOSURE", v),
              Op("set_ctrl", FALSE, "EXPOSURE", v))
  /\ UNCHANGED sys_suspended

\* imx477_set_pad_format() of an active format on the image pad; the record
\* of the call keeps the mode that was current when it began.
SetMode ==
  /\ dev = "bound"
  /\ \E in \in ModeInputs :
       Commit(imx477_set_pad_format(Drv(NoFault), "active", in[1], in[2], in[3]),
              Op("set_fmt", TRUE, in[1],
                 [width |-> in[2], height |-> in[3], mode |-> mode,
                  hblank |-> ctrl["HBLANK"].cur]))
  /\ UNCHANGED sys_suspended

SetHblank ==
  /\ dev = "bound"
  /\ \E v \in HblankInputs :
       Commit(v4l2_s_ext_ctrl(Drv(NoFault), "HBLANK", v),
              Op("set_ctrl", FALSE, "HBLANK", v))
  /\ UNCHANGED sys_suspended

NextFraming ==
  \/ AttachOk
  \/ StreamOk
  \/ SetVblank
  \/ SetExposure
  \/ SetHblank
  \/ SetMode

\* The frame timing does not depend on the chip variant.
InitFraming == Init /\ compatible = "imx477"

SpecFraming == InitFraming /\ [][NextFraming]_vars

----------------------------------------------------------------------------
\* Vocabulary of the frame-timing properties.

\* The frame length the driver was last asked to program: the height of the
\* current mode plus the vertical blanking.
FrameLengthNow == ModeAt(mode).height + ctrl["VBLANK"].cur

\* The least shift s in 0..7 that brings L down to the register's maximum.
MinShift(L) ==
  CHOOSE s \in 0..IMX477_LONG_EXP_SHIFT_MAX :
    /\ L \div Pow2(s) <= IMX477_FRAME_LENGTH_MAX
    /\ \A t \in 0..(s - 1) : L \div Pow2(t) > IMX477_FRAME_LENGTH_MAX

\* The two big-endian bytes of a 16-bit value.
Be16(x) == <<x \div 256, x % 256>>

\* Positions of the log at which the frame-length register is written.
FrameLengthWrites ==
  {i \in DOMAIN log : log[i].ev = "write" /\ log[i].reg = IMX477_REG_FRAME_LENGTH}

\* The last of them: the write of the last imx477_set_frame_length() call.
LastFrameLengthWrite == MaxOf(FrameLengthWrites)

\* C11: for a requested frame length L of at most 128 * FRAME_LENGTH_MAX,
\* set_frame_length picks the least shift s >= 0 with (L >> s) <=
\* FRAME_LENGTH_MAX, writes L >> s to the frame-length register and then s to
\* the long-exposure-shift register; s = 0 and the register holds L itself
\* when L <= FRAME_LENGTH_MAX, and s is in 1..7 otherwise.
C11_FrameLengthShift ==
  (ret = 0 /\ FrameLengthWrites # {}) =>
    /\ FrameLengthNow <= Pow2(IMX477_LONG_EXP_SHIFT_MAX) * IMX477_FRAME_LENGTH_MAX
    /\ long_exp_shift = MinShift(FrameLengthNow)
    /\ log[LastFrameLengthWrite].bytes =
         Be16(FrameLengthNow \div Pow2(long_exp_shift))
    /\ \A i \in FrameLengthWrites :
         /\ i < Len(log)
         /\ log[i + 1].ev = "write"
         /\ log[i + 1].reg = IMX477_LONG_EXP_SHIFT_REG
         /\ log[i + 1].bytes[1] \in 0..IMX477_LONG_EXP_SHIFT_MAX
         /\ log[i].bytes[1] * 256 + log[i].bytes[2] <= IMX477_FRAME_LENGTH_MAX
         /\ log[i + 1].bytes[1] > 0 =>
              2 * (log[i].bytes[1] * 256 + log[i].bytes[2]) + 1 > IMX477_FRAME_LENGTH_MAX
    /\ log[LastFrameLengthWrite + 1].ev = "write"
    /\ log[LastFrameLengthWrite + 1].reg = IMX477_LONG_EXP_SHIFT_REG
    /\ log[LastFrameLengthWrite + 1].bytes = <<long_exp_shift>>
    /\ Reg16(regs, IMX477_REG_FRAME_LENGTH) =
         FrameLengthNow \div Pow2(long_exp_shift)
    /\ regs[IMX477_LONG_EXP_SHIFT_REG] = long_exp_shift
    /\ IF FrameLengthNow <= IMX477_FRAME_LENGTH_MAX
         THEN /\ long_exp_shift = 0
              /\ Reg16(regs, IMX477_REG_FRAME_LENGTH) = FrameLengthNow
         ELSE long_exp_shift \in 1..IMX477_LONG_EXP_SHIFT_MAX

\* C11 witness: a vertical-blank request while streaming made the frame
\* length one line longer than the register's maximum, and the shift is 1.
C11_Witness ==
  /\ op.name = "set_ctrl" /\ op.id = "VBLANK" /\ op.pre.streaming
  /\ ret = 0 /\ FrameLengthWrites # {}
  /\ FrameLengthNow = IMX477_FRAME_LENGTH_MAX + 1
  /\ long_exp_shift = 1
  /\ Reg16(regs, IMX477_REG_FRAME_LENGTH) = IMX477_FRAME_LENGTH_MAX \div 2

C13_ExposureFollowsShift ==
  (streaming /\ op.name = "set_ctrl" /\ op.pre.streaming /\ ret = 0) =>
    Reg16(regs, IMX477_REG_EXPOSURE) =
      ctrl["EXPOSURE"].cur \div Pow2(regs[IMX477_LONG_EXP_SHIFT_REG])

\* C14: after any sequence of active format changes and vertical-blank
\* control sets, the maximum of the exposure control is the height of the
\* current mode plus the current vertical blanking minus the exposure offset
\* (22), and the exposure value does not exceed it.
C14_ExposureMaxFollowsVblank ==
  (dev = "bound" /\ ret = 0) =>
    /\ ctrl["EXPOSURE"].maximum =
         ModeAt(mode).height + ctrl["VBLANK"].cur - IMX477_EXPOSURE_OFFSET
    /\ ctrl["EXPOSURE"].cur <= ctrl["EXPOSURE"].maximum

\* The frame length of a frame interval t in mode m as the specification
\* gives it: floor(t.numerator * pixelRate / (t.denominator * lineLengthPixels)),
\* at most FRAME_LENGTH_MAX and at least the height of the mode. Every
\* denominator of the mode tables is a multiple of 1000, by which the
\* fraction is reduced.
SpecFrameLength(m, t) ==
  Max(Min((t.numerator * (IMX477_PIXEL_RATE \div 1000))
            \div ((t.denominator \div 1000) * m.line_length_pix),
          IMX477_FRAME_LENGTH_MAX),
      m.height)

\* C15: for every mode, once the framing limits are computed the
\* vertical-blank control ranges from frameLengthMin - height to
\* 2^7 * FRAME_LENGTH_MAX - height, with default frameLengthDefault - height.
C15_VblankRange ==
  dev = "bound" =>
    /\ \A p \in ModePtrs :
         /\ ModeAt(p).timeperframe_min.denominator % 1000 = 0
         /\ ModeAt(p).timeperframe_default.denominator % 1000 = 0
    /\ ctrl["VBLANK"].minimum =
         SpecFrameLength(ModeAt(mode), ModeAt(mode).timeperframe_min)
           - ModeAt(mode).height
    /\ ctrl["VBLANK"].maximum =
         Pow2(7) * IMX477_FRAME_LENGTH_MAX - ModeAt(mode).height
    /\ ctrl["VBLANK"].def =
         SpecFrameLength(ModeAt(mode), ModeAt(mode).timeperframe_default)
           - ModeAt(mode).height

\* C15 witness: an active format change installed the 2028x1080 mode, whose
\* frame lengths are rounded down (1318 and 2197 lines).
C15_Witness ==
  /\ op.name = "set_fmt" /\ op.v.mode # mode /\ ret = 0
  /\ ModeAt(mode).height = 1080
  /\ ctrl["VBLANK"].minimum = 1318 - 1080
  /\ ctrl["VBLANK"].def = 2197 - 1080
  /\ ctrl["VBLANK"].maximum = 128 * 65500 - 1080

----------------------------------------------------------------------------
\* Format negotiation: the driver bound, the application flipping the image
\* and asking for formats on the image pad.

\* Format codes asked for: a 12-bit one, two 10-bit ones, and one the driver
\* does not list in codes[] (MEDIA_BUS_FMT_Y8_1X8).
FormatCodeInputs == {codes[1], codes[5], codes[8], "Y8_1X8"}

\* Sizes asked for: the size of every mode, sizes between the modes, and a
\* size far below all of them.
FormatSizeInputs ==
  {<<ModeAt(p).width, ModeAt(p).height>> : p \in ModePtrs}
    \cup {<<2000, 1000>>, <<4056, 800>>, <<2028, 1300>>, <<640, 480>>}

\* The driver state a format request finds.
FormatPre ==
  [mode |-> mode, fmt_code |-> fmt_code, ctrl |-> ctrl]

SetFlip ==
  /\ dev = "bound"
  /\ \E id \in {"HFLIP", "VFLIP"}, v \in {0, 1} :
       Commit(v4l2_s_ext_ctrl(Drv(NoFault), id, v),
              Op("set_ctrl", FALSE, id, v))
  /\ UNCHANGED sys_suspended

FormatRequest ==
  /\ dev = "bound"
  /\ \E which \in {"try", "active"}, code \in FormatCodeInputs,
        size \in FormatSizeInputs :
       Commit(imx477_set_pad_format(Drv(NoFault), which, code, size[1], size[2]),
              Op("set_fmt", which = "active", code,
                 [width |-> size[1], height |-> size[2], was |-> FormatPre]))
  /\ UNCHANGED sys_suspended

NextFormat ==
  \/ AttachOk
  \/ SetFlip
  \/ FormatRequest

SpecFormat == InitFraming /\ [][NextFormat]_vars

----------------------------------------------------------------------------
\* Vocabulary of the format properties.

\* The last entry point was a format request with a code of codes[].
SupportedRequest ==
  op.name = "set_fmt" /\ get_mode_table(op.id) # "none"

\* The table a request with a supported code is resolved in.
RequestedTable == ModeTable(get_mode_table(op.id))

\* The entries of a table with the size the last request was answered with.
ResolvedIn(tbl) ==
  {i \in DOMAIN tbl : tbl[i].width = fmt.width /\ tbl[i].height = fmt.height}

\* Entries of tbl nearest to w x h in area, and among those nearest in width.
AreaDistance(m, w, h) == Abs(m.width * m.height - w * h)

NearestInArea(tbl, w, h) ==
  {i \in DOMAIN tbl :
     \A j \in DOMAIN tbl : AreaDistance(tbl[i], w, h) <= AreaDistance(tbl[j], w, h)}

NearestInAreaThenWidth(tbl, w, h) ==
  {i \in NearestInArea(tbl, w, h) :
     \A j \in NearestInArea(tbl, w, h) :
       Abs(tbl[i].width - w) <= Abs(tbl[j].width - w)}

\* The entry of tbl with the least |width - w| + |height - h|, the last one
\* of the table among equals.
SizeDistance(m, w, h) == Abs(m.width - w) + Abs(m.height - h)

NearestInSize(tbl, w, h) ==
  MaxOf({i \in DOMAIN tbl :
           \A j \in DOMAIN tbl :
             SizeDistance(tbl[i], w, h) <= SizeDistance(tbl[j], w, h)})

\* C17 as stated: a format request on the image pad is answered with the mode
\* of the searched table that is nearest in area to the requested size,
\* nearest in width among equals; 2000x1000 with a 12-bit code gives
\* 2028x1080.
C17_NearestInArea ==
  SupportedRequest =>
    /\ ret = 0
    /\ ResolvedIn(RequestedTable) \cap
         NearestInAreaThenWidth(RequestedTable, op.v.width, op.v.height) # {}
    /\ (op.enable => ModeAt(mode).width = fmt.width
                     /\ ModeAt(mode).height = fmt.height)

\* C17 amended: a format request on the image pad is answered with the mode
\* of the searched table that has the least |width - w| + |height - h|, the
\* later entry of the table among equals, and an active request makes it the
\* current mode; 2000x1000 with a 12-bit code gives 2028x1080.
C17_NearestInSize ==
  SupportedRequest =>
    /\ ret = 0
    /\ ResolvedIn(RequestedTable) =
         {NearestInSize(RequestedTable, op.v.width, op.v.height)}
    /\ (op.enable =>
          mode = [table |-> get_mode_table(op.id),
                  idx |-> NearestInSize(RequestedTable, op.v.width, op.v.height)])
    /\ (get_mode_table(op.id) = "12bit" /\ op.v.width = 2000
        /\ op.v.height = 1000) => (fmt.width = 2028 /\ fmt.height = 1080)

\* C17 witness: an active 12-bit request of 4056x800 was answered with the
\* 4056x3040 mode, which is nearest in size while 2028x1520 is nearest in
\* area.
C17_Witness ==
  /\ SupportedRequest /\ op.enable /\ ret = 0
  /\ get_mode_table(op.id) = "12bit"
  /\ op.v.width = 4056 /\ op.v.height = 800
  /\ fmt.width = 4056 /\ fmt.height = 3040
  /\ ModeAt(mode).height = 3040
  /\ NearestInAreaThenWidth(RequestedTable, 4056, 800) = {2}

\* The table that does not hold the modes of the bit depth asked for.
OtherTable ==
  IF get_mode_table(op.id) = "12bit" THEN supported_modes_10bit
  ELSE supported_modes_12bit

\* C18: for every flip state and every requested size, a format request with
\* a 12-bit code is resolved to a mode of the 12-bit table and one with a
\* 10-bit code to a mode of the 10-bit table, and the code handed back has
\* the bit depth of the code asked for.
C18_BitDepthKept ==
  SupportedRequest =>
    /\ ret = 0
    /\ get_mode_table(fmt.code) = get_mode_table(op.id)
    /\ ResolvedIn(RequestedTable) # {}
    /\ ResolvedIn(OtherTable) = {}
    /\ op.enable =>
         /\ mode.table = get_mode_table(op.id)
         /\ get_mode_table(fmt_code) = get_mode_table(op.id)

\* C18 witness: with both flips on and a 12-bit mode current, an active
\* request of a 10-bit code with the size of the largest 12-bit mode was
\* answered with the 10-bit mode and the 10-bit code of that flip state.
C18_Witness ==
  /\ SupportedRequest /\ op.enable /\ ret = 0
  /\ ctrl["HFLIP"].cur = 1 /\ ctrl["VFLIP"].cur = 1
  /\ op.id = codes[5]
  /\ op.v.width = 4056 /\ op.v.height = 3040
  /\ op.v.was.mode.table = "12bit"
  /\ fmt = [width |-> 1332, height |-> 990, code |-> codes[8]]
  /\ mode.table = "10bit"

\* The mode, the format code and the controls are as the last format request
\* found them.
FormatStateKept ==
  /\ mode = op.v.was.mode
  /\ fmt_code = op.v.was.fmt_code
  /\ ctrl = op.v.was.ctrl

\* C19: a format request with a code for which no mode table exists (neither
\* a 12-bit nor a 10-bit code of the driver) fails with an error and changes
\* no state.
C19_UnknownCodeRefused ==
  (op.name = "set_fmt" /\ get_mode_table(op.id) = "none") =>
    (ret < 0 /\ FormatStateKept)

\* The sizes of the modes of the 10-bit table.
Sizes10bit ==
  {<<supported_modes_10bit[i].width, supported_modes_10bit[i].height>> :
     i \in DOMAIN supported_modes_10bit}

\* C20: an active format request with a 10-bit code and a size that is the
\* size of no 10-bit mode fails with an error and leaves the current mode,
\* the format code and the control ranges as they were.
C20_UnknownSizeRefused ==
  (op.name = "set_fmt" /\ op.enable /\ get_mode_table(op.id) = "10bit"
   /\ <<op.v.width, op.v.height>> \notin Sizes10bit) =>
    (ret < 0 /\ FormatStateKept)

\* The driver as the next entry point finds it, with the flip controls at
\* h and v.
DrvFlipped(h, v) ==
  [Drv(NoFault) EXCEPT !.ctrl["HFLIP"].val = h, !.ctrl["HFLIP"].cur = h,
                       !.ctrl["VFLIP"].val = v, !.ctrl["VFLIP"].cur = v]

\* The four codes of the group (0: 12-bit, 1: 10-bit) a code of codes[]
\* belongs to, in the order of codes[].
GroupOf(code) == IF get_mode_table(code) = "10bit" THEN 1 ELSE 0

\* (horizontalFlip ? 1 : 0) | (verticalFlip ? 2 : 0)
FlipIndex(h, v) == (IF h # 0 THEN 1 ELSE 0) + (IF v # 0 THEN 2 ELSE 0)

\* C21: for each of the two groups of codes[] the code the driver returns is
\* the entry of the group at index (hflip ? 1 : 0) | (vflip ? 2 : 0); the
\* four flip states give four different codes of the group; and the result
\* is the same whichever of the four codes of the group is passed in.
C21_FlipSelectsCode ==
  dev = "bound" =>
    /\ \A c \in {codes[i] : i \in DOMAIN codes} :
         /\ \A h \in {0, 1}, v \in {0, 1} :
              imx477_get_format_code(DrvFlipped(h, v), c) =
                codes[4 * GroupOf(c) + FlipIndex(h, v) + 1]
         /\ Cardinality({imx477_get_format_code(DrvFlipped(f[1], f[2]), c) :
                           f \in {0, 1} \X {0, 1}}) = 4
         /\ \A c2 \in {codes[i] : i \in DOMAIN codes} :
              GroupOf(c2) = GroupOf(c) =>
                imx477_get_format_code(Drv(NoFault), c2) =
                  imx477_get_format_code(Drv(NoFault), c)
    /\ SupportedRequest =>
         fmt.code = codes[4 * GroupOf(op.id)
                          + FlipIndex(ctrl["HFLIP"].cur, ctrl["VFLIP"].cur) + 1]

\* C21 witness: with only the horizontal flip on, a request with the last
\* 10-bit code of codes[] was answered with the second one.
C21_Witness ==
  /\ SupportedRequest /\ ret = 0
  /\ ctrl["HFLIP"].cur = 1 /\ ctrl["VFLIP"].cur = 0
  /\ op.id = codes[8]
  /\ fmt.code = codes[6]

----------------------------------------------------------------------------
\* The register program sequencer on its own: the driver bound, the sensor
\* powered by a stream start or not, and register lists written with a bus
\* fault on one of their entries.

\* A fault can be placed on each of the first MaxListFail entries of a list.
MaxListFail == 2

\* Entries of a register list a fault is placed on (0: on none): the first
\* ones, the last one, and those at and right after an entry that programs a
\* tracked register.
ListFaultPoints(name) ==
  {0} \cup
  {i \in DOMAIN RegList(name) :
     \/ i <= MaxListFail
     \/ i = Len(RegList(name))
     \/ i \in TrackedIdx[name]
     \/ i - 1 \in TrackedIdx[name]}

\* imx477_write_regs() of one list with the fault plan f.
WriteList ==
  /\ dev = "bound"
  /\ \E name \in RegListNames : \E f \in ListFaultPoints(name) :
       Commit(imx477_write_regs(
                Drv(IF f = 0 THEN NoFault ELSE EntryFault(name, f)), name),
              Op("write_regs", FALSE, name, [fail |-> f, regs |-> regs]))
  /\ UNCHANGED sys_suspended

NextSequencer ==
  \/ AttachOk
  \/ StreamOk
  \/ WriteList

SpecSequencer == InitFraming /\ [][NextSequencer]_vars

\* The register file after entries 1..k of the list tbl were stored in r, one
\* after the other: each address holds the value of the last entry for it.
AppliedInOrder(r, tbl, k) ==
  [a \in DOMAIN r |->
     IF \E i \in 1..k : tbl[i][1] = a
       THEN tbl[CHOOSE i \in 1..k :
                  /\ tbl[i][1] = a
                  /\ \A j \in (i + 1)..k : tbl[j][1] # a][2]
       ELSE r[a]]

\* The first entry of the last list write whose transfer fails (0: none): the
\* first one when the sensor has no power, else the one the fault is on.
FirstFailing == IF op.pre.powered THEN op.v.fail ELSE 1

\* C22: imx477_write_regs() sends the entries in list order, each at most
\* once, stops at the first failing write so that no entry after it goes out,
\* and returns the error of that write; the entries before the failing one
\* stay applied in the sensor.
C22_ListWriteStopsAtFirstFailure ==
  op.name = "write_regs" =>
    /\ Len(log) = 1
    /\ log[1].ev = "write_regs" /\ log[1].list = op.id
    /\ log[1].fail = FirstFailing
    /\ log[1].ok = (FirstFailing = 0)
    /\ log[1].idx = IF FirstFailing = 0 THEN Len(RegList(op.id)) ELSE FirstFailing
    /\ log[1].reg = RegList(op.id)[log[1].idx][1]
    /\ ret = IF FirstFailing = 0 THEN 0 ELSE -EIO
    /\ regs = AppliedInOrder(op.v.regs, RegList(op.id),
                             IF FirstFailing = 0 THEN Len(RegList(op.id))
                             ELSE FirstFailing - 1)

\* C22 witness: the write of the 1332x990 list to a powered sensor failed on
\* its 18th entry; the line length of entries 16 and 17 is in the sensor, the
\* frame length of entries 18 and 19 is not.
C22_Witness ==
  /\ op.name = "write_regs" /\ op.id = "mode_1332x990_regs"
  /\ op.pre.powered /\ op.v.fail = 18
  /\ ret = -EIO
  /\ log[1].idx = 18
  /\ Reg16(regs, IMX477_REG_LINE_LENGTH) = 6664
  /\ Reg16(regs, IMX477_REG_LINE_LENGTH) # Reg16(op.v.regs, IMX477_REG_LINE_LENGTH)
  /\ Reg16(regs, IMX477_REG_FRAME_LENGTH) = Reg16(op.v.regs, IMX477_REG_FRAME_LENGTH)

----------------------------------------------------------------------------
\* Trigger modes: every combination of the device-tree override ("trigger-mode"
\* property, -1 when absent), the module parameter trigger_mode and the
\* module parameter dpc_enable, with the sensor attached and streamed.

TriggerModes == {0, 1, 2}

InitTrigger ==
  /\ dev = "unbound"
  /\ compatible = "imx477"
  /\ trigger_mode_of \in {-1} \cup TriggerModes
  /\ trigger_mode \in TriggerModes
  /\ dpc_enable \in {0, 1}
  /\ streaming = FALSE
  /\ common_regs_written = FALSE
  /\ long_exp_shift = 0
  /\ mode = NullMode
  /\ fmt_code = ""
  /\ ctrl = CtrlsNew
  /\ usage_count = 0
  /\ rpm_active = FALSE
  /\ powered = FALSE
  /\ regs = RegsReset
  /\ hw = HwReset
  /\ sys_suspended = FALSE
  /\ log = << >>
  /\ fmt = NoFmt
  /\ ret = 0
  /\ op = [name |-> "init", enable |-> FALSE, id |-> "", v |-> 0,
           pre |-> [streaming |-> FALSE, common_regs_written |-> FALSE,
                    usage_count |-> 0, powered |-> FALSE]]
  /\ mutex = "free"
  /\ pc = NoCalls
  /\ app = AppNew

NextTrigger ==
  \/ AttachOk
  \/ StreamOk

SpecTrigger == InitTrigger /\ [][NextTrigger]_vars

\* The trigger mode in force: the override when one was configured, the
\* module setting otherwise.
TriggerModeInForce ==
  IF trigger_mode_of \in TriggerModes THEN trigger_mode_of ELSE trigger_mode

\* The log holds, from position i on, the four trigger writes for mode m:
\* mc_mode = (m > 0), master_select = (m <= 1), xvs_io_ctrl = (m = 1),
\* external_output_enable = (m = 1).
TriggerWritesAt(i, m) ==
  /\ i + 3 <= Len(log)
  /\ \A k \in 0..3 : log[i + k].ev = "write"
  /\ log[i].reg = IMX477_REG_MC_MODE
  /\ log[i].bytes = <<IF m > 0 THEN 1 ELSE 0>>
  /\ log[i + 1].reg = IMX477_REG_MS_SEL
  /\ log[i + 1].bytes = <<IF m <= 1 THEN 1 ELSE 0>>
  /\ log[i + 2].reg = IMX477_REG_XVS_IO_CTRL
  /\ log[i + 2].bytes = <<IF m = 1 THEN 1 ELSE 0>>
  /\ log[i + 3].reg = IMX477_REG_EXTOUT_EN
  /\ log[i + 3].bytes = <<IF m = 1 THEN 1 ELSE 0>>

\* Positions of the log at which a trigger register is written.
TriggerWrites ==
  {i \in DOMAIN log :
     log[i].ev = "write" /\
     log[i].reg \in {IMX477_REG_MC_MODE, IMX477_REG_MS_SEL, IMX477_REG_XVS_IO_CTRL}}

----------------------------------------------------------------------------
\* Locking: two threads calling into the bound driver, each entry point
\* reduced to where it takes imx477->mutex, where it reads or writes the
\* driver state, and where it releases the mutex.

\* Entry points that can run against each other: ioctls of an application,
\* the system sleep callbacks and the runtime-suspend callback.
\* ("set_stream_same" and "set_stream_err" are the calls of imx477_set_stream
\* that leave by the early return and by err_unlock:; "get_selection" is the
\* crop target, the only one that reads the state.)
Entries ==
  {"set_stream", "set_stream_same", "set_stream_err", "set_fmt", "get_fmt",
   "get_selection", "open", "set_ctrl", "enum_mbus_code", "enum_frame_size",
   "suspend", "resume", "power_off"}

\* A locking discipline in which the error path of imx477_set_stream returns
\* with the mutex held.
LockProgramErrKeepsMutex(e) ==
  IF e = "set_stream_err" THEN <<"lock", "access">>
  ELSE IF e \in {"set_stream", "set_stream_same", "set_fmt", "get_fmt",
                 "get_selection", "open", "set_ctrl"}
    THEN <<"lock", "access", "unlock">>
    ELSE <<"access">>

\* imx477_set_stream (on each of its three return paths), imx477_open,
\* imx477_set_pad_format, imx477_get_pad_format and imx477_get_selection take
\* the mutex around their body, and the control framework takes it (it is
\* the lock of the handler) around imx477_set_ctrl; imx477_enum_mbus_code,
\* imx477_enum_frame_size, imx477_suspend, imx477_resume and
\* imx477_power_off touch the state without taking it.
LockProgram(e) ==
  IF e \in {"set_stream", "set_stream_same", "set_stream_err", "set_fmt",
            "get_fmt", "get_selection", "open", "set_ctrl"}
    THEN <<"lock", "access", "unlock">>
    ELSE <<"access">>

\* Everything but the mutex, the positions of the threads and the system
\* sleep state.
DriverVars ==
  <<dev, compatible, trigger_mode_of, trigger_mode, dpc_enable, streaming,
    common_regs_written, long_exp_shift, mode, fmt_code, ctrl, usage_count,
    rpm_active, powered, regs, hw, log, fmt, ret, op, app>>

\* Thread t is inside an entry point, at a step of kind k.
AtKind(t, k) ==
  pc[t] # NoCall /\ LockProgram(pc[t].entry)[pc[t].step] = k

\* The position of a thread after the step it is at.
Advance(p) ==
  IF p.step = Len(LockProgram(p.entry)) THEN NoCall
  ELSE [p EXCEPT !.step = @ + 1]

\* The system sleep callbacks run with the tasks of the applications frozen:
\* alone, suspend before resume.  Everything else runs while the system is
\* awake.
MayEnter(t, e) ==
  CASE e = "suspend" -> ~sys_suspended /\ \A u \in Threads : pc[u] = NoCall
    [] e = "resume" -> sys_suspended /\ \A u \in Threads : pc[u] = NoCall
    [] OTHER -> ~sys_suspended
                /\ \A u \in Threads : pc[u].entry \notin {"suspend", "resume"}

Enter ==
  /\ dev = "bound"
  /\ \E t \in Threads, e \in Entries :
       /\ pc[t] = NoCall
       /\ MayEnter(t, e)
       /\ pc' = [pc EXCEPT ![t] = [entry |-> e, step |-> 1]]
  /\ UNCHANGED <<DriverVars, mutex, sys_suspended>>

\* mutex_lock(&imx477->mutex)
LockBy(t) ==
  /\ AtKind(t, "lock")
  /\ mutex = "free"
  /\ mutex' = t
  /\ pc' = [pc EXCEPT ![t] = Advance(@)]
  /\ UNCHANGED <<DriverVars, sys_suspended>>

Lock == \E t \in Threads : LockBy(t)

\* The body of the entry point: its reads and writes of the driver state.
AccessBy(t) ==
  /\ AtKind(t, "access")
  /\ pc' = [pc EXCEPT ![t] = Advance(@)]
  /\ sys_suspended' = CASE pc[t].entry = "suspend" -> TRUE
                        [] pc[t].entry = "resume" -> FALSE
                        [] OTHER -> sys_suspended
  /\ UNCHANGED <<DriverVars, mutex>>

Access == \E t \in Threads : AccessBy(t)

\* mutex_unlock(&imx477->mutex)
UnlockBy(t) ==
  /\ AtKind(t, "unlock")
  /\ mutex' = "free"
  /\ pc' = [pc EXCEPT ![t] = Advance(@)]
  /\ UNCHANGED <<DriverVars, sys_suspended>>

Unlock == \E t \in Threads : UnlockBy(t)

NextLocking ==
  \/ AttachOk
  \/ Enter
  \/ Lock
  \/ Access
  \/ Unlock

SpecLocking == InitFraming /\ [][NextLocking]_vars

\* C24: every read and every write of the sensor state and of the control
\* ranges happens with the sensor mutex held, in every entry point (suspend,
\* resume, power-off, format and frame-size enumeration included), and no two
\* entry points are in the state at the same time.
C24_StateUnderMutex ==
  /\ \A t \in Threads : AtKind(t, "access") => mutex = t
  /\ \A t \in Threads, u \in Threads :
       (AtKind(t, "access") /\ AtKind(u, "access")) => t = u

----------------------------------------------------------------------------
\* The s_ctrl operation called with any control registered with
\* imx477_ctrl_ops.

\* The control ids the switch of imx477_set_ctrl() has a case for.
SwitchIds ==
  {"ANALOGUE_GAIN", "EXPOSURE", "DIGITAL_GAIN", "TEST_PATTERN",
   "TEST_PATTERN_RED", "TEST_PATTERN_GREENR", "TEST_PATTERN_BLUE",
   "TEST_PATTERN_GREENB", "HFLIP", "VFLIP", "VBLANK", "HBLANK"}

\* Controls and values the operation is called with: the two controls
\* created without a case in the switch, and three that have one.
SCtrlInputs ==
  {<<"PIXEL_RATE", IMX477_PIXEL_RATE>>, <<"LINK_FREQ", 0>>,
   <<"ANALOGUE_GAIN", IMX477_ANA_GAIN_MAX>>,
   <<"DIGITAL_GAIN", IMX477_DGTL_GAIN_MAX>>, <<"TEST_PATTERN", 1>>,
   <<"ANALOGUE_GAIN", IMX477_ANA_GAIN_MIN>>,
   <<"DIGITAL_GAIN", IMX477_DGTL_GAIN_MIN>>, <<"TEST_PATTERN", 0>>}

\* call_op(master, s_ctrl) of the control framework followed by
\* new_to_cur(): ctrl->val holds the value handed to imx477_set_ctrl().
call_s_ctrl(d, id, v) ==
  new_to_cur(imx477_set_ctrl([d EXCEPT !.ctrl[id].val = v], id), id)

CallSCtrl ==
  /\ dev = "bound"
  /\ \E in \in SCtrlInputs :
       Commit(call_s_ctrl(Drv(NoFault), in[1], in[2]),
              Op("s_ctrl", FALSE, in[1], in[2]))
  /\ UNCHANGED sys_suspended

NextSCtrl == AttachOk \/ StreamOk \/ CallSCtrl

SpecSCtrl == InitFraming /\ [][NextSCtrl]_vars

C25_UnhandledIdWritesNothing ==
  (op.name = "s_ctrl" /\ op.id \notin SwitchIds) =>
    /\ Writes = {}
    /\ op.pre.streaming => ret = -EINVAL

----------------------------------------------------------------------------
\* Identification at attach.

\* The reads of the chip-ID register in the last call.
ChipIdReads ==
  {i \in DOMAIN log :
     log[i].ev = "read" /\ log[i].reg = IMX477_REG_CHIP_ID}

\* The last call was an attach that read the chip ID, and the read failed or
\* the chip that answered (op.v) is not the one the compatible string names.
IdentifyFailed ==
  /\ op.name = "probe"
  /\ ChipIdReads # {}
  /\ \/ \E i \in ChipIdReads : ~log[i].ok
     \/ op.v # imx477_compatible_data(compatible).chip_id

\* C26: when the chip-ID read of attach fails or answers another ID, attach
\* returns an error, the sensor is powered off again and the device does not
\* come up: no control limits set, no sub-device bound, no stream, and no
\* further call reaches the driver.
C26_IdentifyFailureIsFatal ==
  /\ IdentifyFailed =>
       /\ ret # 0
       /\ dev = "failed"
       /\ ~powered /\ ~rpm_active /\ usage_count = 0
       /\ log[Len(log)].ev = "power_off"
       /\ ctrl = CtrlsNew
       /\ ~streaming /\ ~common_regs_written
  /\ dev = "failed" => (op.name = "probe" /\ ~streaming /\ ~powered)

\* Attach met a chip with another ID on a working bus.
C26_Witness ==
  /\ IdentifyFailed
  /\ \A i \in ChipIdReads : log[i].ok
  /\ ret = -EIO

----------------------------------------------------------------------------
\* Mode programmed into the sensor.

\* C27: while the sensor streams, the mode register list written to it last
\* is the list of the current mode.
C27_ProgrammedModeIsCurrent ==
  streaming => hw.mode_list = ModeAt(mode).reg_list

----------------------------------------------------------------------------
\* Frame timing under bus faults.

\* Faults on the two writes of imx477_set_frame_length().
FrameTimingFaults ==
  {NoFault, RegFault(IMX477_REG_FRAME_LENGTH),
   RegFault(IMX477_LONG_EXP_SHIFT_REG)}

\* V4L2_CID_VBLANK set by the application on a bus that may fail.
SetVblankFaulty ==
  /\ dev = "bound"
  /\ \E v \in VblankInputs, f \in FrameTimingFaults :
       Commit(v4l2_s_ext_ctrl(Drv(f), "VBLANK", v),
              Op("set_ctrl", FALSE, "VBLANK", [val |-> v, fault |-> f.reg]))
  /\ UNCHANGED sys_suspended

NextFrameTiming == AttachOk \/ StreamOk \/ SetVblankFaulty

SpecFrameTiming == InitFraming /\ [][NextFrameTiming]_vars

\* The shift the sensor applies: the register, 0 after power-on.
SensorShift ==
  IF regs[IMX477_LONG_EXP_SHIFT_REG] = -1 THEN 0
  ELSE regs[IMX477_LONG_EXP_SHIFT_REG]

\* C28: the frame-length register and the long-exposure-shift register change
\* together (a frame-length write that went through is followed by a shift
\* write that went through, in every call, failed or not), and while the
\* sensor is powered the stored long_exp_shift is the shift the sensor holds.
C28_FrameTimingAtomic ==
  /\ \A i \in FrameLengthWrites :
       log[i].ok =>
         /\ i < Len(log)
         /\ log[i + 1].ev = "write"
         /\ log[i + 1].reg = IMX477_LONG_EXP_SHIFT_REG
         /\ log[i + 1].ok
  /\ powered => long_exp_shift = SensorShift

----------------------------------------------------------------------------
\* Control ranges.

RangedCtrls == {"VBLANK", "HBLANK", "EXPOSURE"}

\* minimum <= default <= maximum, and the current value inside the range.
RangeSound(c) ==
  /\ c.minimum <= c.def /\ c.def <= c.maximum
  /\ c.minimum <= c.cur /\ c.cur <= c.maximum

\* The ranges imx477_set_framing_limits() and imx477_adjust_exposure_range()
\* compute for the mode m are not degenerate, whatever vertical blanking of
\* the mode's range is in force.
ModeRangesSound(m) ==
  /\ imx477_get_frame_length(m, m.timeperframe_min) - m.height >= 0
  /\ imx477_get_frame_length(m, m.timeperframe_min)
       <= imx477_get_frame_length(m, m.timeperframe_default)
  /\ imx477_get_frame_length(m, m.timeperframe_default)
       <= Pow2(IMX477_LONG_EXP_SHIFT_MAX) * IMX477_FRAME_LENGTH_MAX
  /\ m.line_length_pix - m.width >= 0
  /\ m.line_length_pix - m.width <= IMX477_LINE_LENGTH_MAX
  /\ IMX477_EXPOSURE_MIN
       <= imx477_get_frame_length(m, m.timeperframe_min) - IMX477_EXPOSURE_OFFSET

----------------------------------------------------------------------------
\* Register encoding on the bus.

\* put_unaligned_be16(reg, buf) of imx477_write_reg(), and addr_buf of
\* imx477_read_reg(): { reg >> 8, reg & 0xff }.
put_unaligned_be16(reg) == <<reg \div 256, reg % 256>>

\* The len + 2 bytes imx477_write_reg() hands to i2c_master_send().
WriteBuf(reg, len, val) == put_unaligned_be16(reg) \o RegBytes(len, val)

\* The number a sequence of bytes spells, most significant byte first.
BeValue(b) ==
  IF b = << >> THEN 0
  ELSE LET n == Len(b)
       IN  (IF n >= 4 THEN b[n - 3] * 16777216 ELSE 0)
         + (IF n >= 3 THEN b[n - 2] * 65536 ELSE 0)
         + (IF n >= 2 THEN b[n - 1] * 256 ELSE 0) + b[n]

\* Register addresses, lengths and values of the transfers.
IoRegs == {IMX477_REG_CHIP_ID, IMX477_REG_DPC_1, IMX477_REG_MC_MODE}

IoLens == 1..4

\* The largest value of len bytes (of four bytes: the largest a 32-bit
\* signed integer holds, 2^31 - 1).
IoMax(len) ==
  IF len = 4 THEN Pow2(30) + (Pow2(30) - 1) ELSE Pow2(8 * len) - 1

\* Values of at most len bytes: 0, 1, one with its top byte's high bit set,
\* one with all bytes different, and the largest.
IoValues(len) ==
  {0, 1, IoMax(len),
   IF len = 4 THEN Pow2(30) + 128 ELSE Pow2(8 * len - 1),
   BeValue(SubSeq(<<1, 2, 3, 4>>, 1, len))}

\* The sensor takes the first two bytes of a write as the address and the
\* rest as the data; a read of as many bytes at that address returns them.
SensorAnswer(buf) == BeValue(SubSeq(buf, 3, Len(buf)))

RegIoRead(w, reg, len, val) ==
  \E r \in {imx477_read_reg([w EXCEPT !.chip = SensorAnswer(WriteBuf(reg, len, val))],
                            reg, len)} :
    Commit(r, Op("reg_io", FALSE, "",
                 [reg |-> reg, len |-> len, val |-> val,
                  sent |-> WriteBuf(reg, len, val),
                  addr |-> put_unaligned_be16(reg),
                  wret |-> w.ret, got |-> r.val]))

\* imx477_write_reg(reg, len, val) followed by imx477_read_reg(reg, len) of
\* what the sensor took, on a working or a dead bus.
RegIo ==
  /\ dev = "bound"
  /\ \E reg \in IoRegs, len \in IoLens, f \in {NoFault, DeadBus} :
       \E val \in IoValues(len) :
         RegIoRead(imx477_write_reg(Drv(f), reg, len, val), reg, len, val)
  /\ UNCHANGED sys_suspended

NextRegIo == AttachOk \/ StreamOk \/ RegIo

SpecRegIo == InitFraming /\ [][NextRegIo]_vars

----------------------------------------------------------------------------
\* Runtime-PM references.

\* C31: between calls, the driver holds no runtime-PM reference on the sensor
\* while the streaming flag is false and exactly one while it is true.
C31_PowerReferencesBalanced ==
  dev = "bound" =>
    usage_count = (IF streaming THEN 1 ELSE 0)

\* C32: the flip controls are locked exactly while the streaming flag is set;
\* with the flag cleared (after a stop, a failed start or a failed resume)
\* both can be changed.
C32_FlipsLockedIffStreaming ==
  dev = "bound" =>
    /\ ctrl["HFLIP"].grabbed = streaming
    /\ ctrl["VFLIP"].grabbed = streaming

----------------------------------------------------------------------------
\* The mutex at the call sites of imx477_get_format_code(), and its release.

\* The entry points that call imx477_get_format_code().
FormatCodeCallers ==
  {"open", "get_fmt", "set_fmt", "enum_mbus_code", "enum_frame_size"}

\* C33: lockdep_assert_held(&imx477->mutex) of imx477_get_format_code()
\* never fails: whichever entry point calls it holds the mutex at that time.
C33_FormatCodeUnderMutex ==
  \A t \in Threads :
    (AtKind(t, "access") /\ pc[t].entry \in FormatCodeCallers) => mutex = t

\* Fair scheduling: a thread inside an entry point goes on running, and a
\* thread that waits for the mutex gets it when it is free again and again
\* (the kernel mutex hands over to its oldest waiter).
SpecLockingFair ==
  /\ SpecLocking
  /\ \A t \in Threads :
       /\ SF_vars(LockBy(t))
       /\ WF_vars(AccessBy(t))
       /\ WF_vars(UnlockBy(t))

\* Thread t holds the mutex only inside an entry point that has locked it and
\* not yet unlocked it.
HeldInside(t) ==
  mutex = t =>
    /\ pc[t] # NoCall
    /\ pc[t].step > 1
    /\ "lock" = LockProgram(pc[t].entry)[1]

----------------------------------------------------------------------------
\* Line length over the whole horizontal-blank range.

\* Horizontal-blank requests in the current mode: the ends of the control's
\* range and the largest value whose line length fits the register.
HblankRangeInputs ==
  {ctrl["HBLANK"].minimum, ctrl["HBLANK"].maximum,
   IMX477_LINE_LENGTH_MAX - ModeAt(mode).width}

\* V4L2_CID_HBLANK set by the application
SetHblankInRange ==
  /\ dev = "bound"
  /\ \E v \in HblankRangeInputs :
       Commit(v4l2_s_ext_ctrl(Drv(NoFault), "HBLANK", v),
              Op("set_ctrl", FALSE, "HBLANK", v))
  /\ UNCHANGED sys_suspended

NextLineLength == AttachOk \/ StreamOk \/ SetMode \/ SetHblankInRange

SpecLineLength == InitFraming /\ [][NextLineLength]_vars

\* Positions of the log at which the line-length register is written.
LineLengthWrites ==
  {i \in DOMAIN log : log[i].ev = "write" /\ log[i].reg = IMX477_REG_LINE_LENGTH}

\* C35: for every mode and every horizontal blanking of the control's range,
\* the line length width + hblank is at most LINE_LENGTH_MAX and the two
\* bytes written to the line-length register spell it in full.
C35_LineLengthFits ==
  dev = "bound" =>
    /\ ModeAt(mode).width + ctrl["HBLANK"].cur <= IMX477_LINE_LENGTH_MAX
    /\ (ret = 0 /\ LineLengthWrites # {}) =>
         log[MaxOf(LineLengthWrites)].bytes
           = Be16(ModeAt(mode).width + ctrl["HBLANK"].cur)

----------------------------------------------------------------------------
\* Formats of the two pads, tentative and active.

Pads == {"image", "metadata"}

IMX477_EMBEDDED_LINE_WIDTH == 16384
IMX477_NUM_EMBEDDED_LINES == 1

\* imx477_update_metadata_pad_format()
MetadataFmt ==
  [width |-> IMX477_EMBEDDED_LINE_WIDTH, height |-> IMX477_NUM_EMBEDDED_LINES,
   code |-> "SENSOR_DATA"]

\* imx477_set_pad_format() on either pad: on the metadata pad a try format is
\* stored as requested and an active one is the fixed metadata format.
imx477_set_pad_format_on(d, pad, which, code, w, h) ==
  IF pad = "image" THEN imx477_set_pad_format(d, which, code, w, h)
  ELSE IF which = "try"
    THEN [d EXCEPT !.fmt = [width |-> w, height |-> h, code |-> code],
                   !.ret = 0]
  ELSE [d EXCEPT !.fmt = MetadataFmt, !.ret = 0]

\* imx477_get_pad_format(): a try format is the stored one, try_fmt, with its
\* code brought in line with the flips; the active format of the image pad
\* is made of the current mode and the stored code.
imx477_get_pad_format(d, pad, which, try_fmt) ==
  IF which = "try"
    THEN [d EXCEPT !.fmt =
                     [try_fmt EXCEPT !.code =
                        IF pad = "image" THEN imx477_get_format_code(d, @)
                        ELSE "SENSOR_DATA"],
                   !.ret = 0]
  ELSE IF pad = "image"
    THEN [d EXCEPT !.fmt = [width |-> ModeAt(d.mode).width,
                            height |-> ModeAt(d.mode).height,
                            code |-> imx477_get_format_code(d, d.fmt_code)],
                   !.ret = 0]
  ELSE [d EXCEPT !.fmt = MetadataFmt, !.ret = 0]

\* Try formats a file handle may hold: the one imx477_open() stores, and one
\* of the 10-bit mode.
TryFormats ==
  {[width |-> supported_modes_12bit[1].width,
    height |-> supported_modes_12bit[1].height, code |-> codes[1]],
   [width |-> supported_modes_10bit[1].width,
    height |-> supported_modes_10bit[1].height, code |-> codes[6]]}

\* Codes and sizes of the format requests on the pads.
PadCodeInputs == {codes[1], codes[5]}

PadSizeInputs ==
  {<<ModeAt(p).width, ModeAt(p).height>> : p \in ModePtrs} \cup {<<640, 480>>}

\* VIDIOC_SUBDEV_S_FMT on a pad
PadSetFormat ==
  /\ dev = "bound"
  /\ \E pad \in Pads, which \in {"try", "active"}, code \in PadCodeInputs,
        size \in PadSizeInputs :
       Commit(imx477_set_pad_format_on(Drv(NoFault), pad, which, code,
                                       size[1], size[2]),
              Op("pad_set_fmt", which = "active", pad,
                 [width |-> size[1], height |-> size[2], code |-> code]))
  /\ UNCHANGED sys_suspended

\* VIDIOC_SUBDEV_G_FMT on a pad
PadGetFormat ==
  /\ dev = "bound"
  /\ \E pad \in Pads, which \in {"try", "active"}, tf \in TryFormats :
       Commit(imx477_get_pad_format(Drv(NoFault), pad, which, tf),
              Op("pad_get_fmt", which = "active", pad, tf))
  /\ UNCHANGED sys_suspended

NextPads ==
  \/ AttachOk
  \/ StreamOk
  \/ SetFlip
  \/ PadSetFormat
  \/ PadGetFormat

SpecPads == InitFraming /\ [][NextPads]_vars

\* The call that leads to the next state is a format call that is tentative
\* or, for a set, on the metadata pad.
TentativeCall ==
  \/ op'.name \in {"pad_set_fmt", "pad_get_fmt"} /\ ~op'.enable
  \/ op'.name = "pad_set_fmt" /\ op'.id = "metadata"

\* C36: a try set_fmt or get_fmt on either pad, and any set_fmt on the
\* metadata pad, leaves the mode, the stored code, the long-exposure shift,
\* the streaming flag and the controls (ranges and values) as they were and
\* writes no register.
C36_TentativeLeavesActiveState ==
  [][TentativeCall =>
       /\ UNCHANGED <<mode, fmt_code, long_exp_shift, streaming, ctrl, regs,
                      usage_count, powered>>
       /\ log' = << >>
       /\ ret' = 0]_vars

\* A try set_fmt on the image pad while streaming resolved to a mode other
\* than the current one.
C36_Witness ==
  /\ op.name = "pad_set_fmt" /\ ~op.enable /\ op.id = "image"
  /\ streaming
  /\ fmt.width # ModeAt(mode).width

\* C37: a get_fmt(active) on the image pad that follows an active set_fmt on
\* the image pad, the flips being as they were, returns the width, height and
\* code the set_fmt returned, whether or not the set_fmt changed the mode.
C37_ActiveFormatRoundTrip ==
  [][(/\ op.name = "pad_set_fmt" /\ op.enable /\ op.id = "image"
      /\ op'.name = "pad_get_fmt" /\ op'.enable /\ op'.id = "image")
       => fmt' = fmt]_vars

\* An active set_fmt on the image pad asked for a size that is no mode's and
\* for a 10-bit code, with the sensor flipped.
C37_Witness ==
  /\ op.name = "pad_set_fmt" /\ op.enable /\ op.id = "image"
  /\ op.v.width = 640 /\ op.v.code = codes[5]
  /\ ctrl["HFLIP"].cur = 1
  /\ fmt.code = codes[6]

----------------------------------------------------------------------------
\* Controls set while the sensor is idle.

\* Control requests: a vertical blanking that needs a shift, a horizontal
\* blanking inside its range and the largest one, and one value for an
\* exposure, a gain, a flip, the test pattern and one of its colours.
DeferredInputs ==
  {<<"VBLANK", IMX477_FRAME_LENGTH_MAX + 1 - ModeAt(mode).height>>,
   <<"HBLANK", ctrl["HBLANK"].minimum + 56>>,
   <<"HBLANK", ctrl["HBLANK"].maximum>>,
   <<"EXPOSURE", IMX477_EXPOSURE_DEFAULT + 1>>,
   <<"ANALOGUE_GAIN", IMX477_ANA_GAIN_MAX>>,
   <<"HFLIP", 1>>,
   <<"TEST_PATTERN", 1>>,
   <<"TEST_PATTERN_BLUE", 0>>}

\* A control set by the application; the record of the call keeps the value
\* of the control before it.
SetAnyCtrl ==
  /\ dev = "bound"
  /\ \E in \in DeferredInputs :
       Commit(v4l2_s_ext_ctrl(Drv(NoFault), in[1], in[2]),
              Op("set_ctrl", FALSE, in[1],
                 [val |-> in[2], was |-> ctrl[in[1]].cur]))
  /\ UNCHANGED sys_suspended

NextDeferred == AttachOk \/ StreamOk \/ SetAnyCtrl

SpecDeferred == InitFraming /\ [][NextDeferred]_vars

\* The value each control register holds when it follows the controls.
RegistersFollowControls ==
  /\ long_exp_shift = MinShift(FrameLengthNow)
  /\ regs[IMX477_LONG_EXP_SHIFT_REG] = long_exp_shift
  /\ Reg16(regs, IMX477_REG_FRAME_LENGTH)
       = FrameLengthNow \div Pow2(long_exp_shift)
  /\ Reg16(regs, IMX477_REG_LINE_LENGTH)
       = ModeAt(mode).width + ctrl["HBLANK"].cur
  /\ Reg16(regs, IMX477_REG_EXPOSURE)
       = ctrl["EXPOSURE"].cur \div Pow2(long_exp_shift)
  /\ Reg16(regs, IMX477_REG_ANALOG_GAIN) = ctrl["ANALOGUE_GAIN"].cur
  /\ Reg16(regs, IMX477_REG_DIGITAL_GAIN) = ctrl["DIGITAL_GAIN"].cur
  /\ regs[IMX477_REG_ORIENTATION]
       = ctrl["HFLIP"].cur + 2 * ctrl["VFLIP"].cur
  /\ Reg16(regs, IMX477_REG_TEST_PATTERN)
       = imx477_test_pattern_val[ctrl["TEST_PATTERN"].cur + 1]
  /\ Reg16(regs, IMX477_REG_TEST_PATTERN_R) = ctrl["TEST_PATTERN_RED"].cur
  /\ Reg16(regs, IMX477_REG_TEST_PATTERN_GR) = ctrl["TEST_PATTERN_GREENR"].cur
  /\ Reg16(regs, IMX477_REG_TEST_PATTERN_B) = ctrl["TEST_PATTERN_BLUE"].cur
  /\ Reg16(regs, IMX477_REG_TEST_PATTERN_GB) = ctrl["TEST_PATTERN_GREENB"].cur

\* Positions of the log at which register reg is written directly.
DirectWrites(reg) ==
  {i \in DOMAIN log : log[i].ev = "write" /\ log[i].reg = reg}

\* C38: a control set while the sensor is not powered for streaming writes no
\* register, returns 0 and keeps the value; after the next successful
\* set_stream(1) every control register holds the value derived from the
\* current value of its control, the frame length and shift having been
\* written before the exposure.
C38_DeferredControlsApplied ==
  /\ (op.name = "set_ctrl" /\ op.pre.usage_count = 0) =>
       /\ ret = 0
       /\ Writes = {}
       /\ ctrl[op.id].cur = Clamp(op.v.val, ctrl[op.id].minimum,
                                  ctrl[op.id].maximum)
  /\ (op.name = "set_stream" /\ op.enable /\ ~op.pre.streaming /\ ret = 0) =>
       /\ streaming
       /\ RegistersFollowControls
       /\ \A i \in DirectWrites(IMX477_REG_FRAME_LENGTH) \cup
                   DirectWrites(IMX477_LONG_EXP_SHIFT_REG),
             j \in DirectWrites(IMX477_REG_EXPOSURE) : i < j
       /\ DirectWrites(IMX477_REG_EXPOSURE) # {}

----------------------------------------------------------------------------
\* Blanking after a change of mode.

\* The default vertical blanking of the mode m.
DefaultVblank(m) ==
  imx477_get_frame_length(m, m.timeperframe_default) - m.height

----------------------------------------------------------------------------
\* The capture application: the capture loop and the completion callback.

\* Iterations of the capture loop before endTime is reached.
MaxFrames == 3

\* Everything the capture application does not touch.
KernelVars ==
  <<dev, compatible, trigger_mode_of, trigger_mode, dpc_enable, streaming,
    common_regs_written, long_exp_shift, mode, fmt_code, ctrl, usage_count,
    rpm_active, powered, regs, hw, sys_suspended, log, fmt, ret, op, mutex,
    pc>>

InitCapture ==
  /\ InitTrigger
  /\ trigger_mode_of = -1 /\ trigger_mode = 0 /\ dpc_enable = 1

\* capureImage() up to the loop: the duration is a positive number of
\* iterations, the camera is started.
StartCapture ==
  /\ app.main = "start"
  /\ \E n \in 1 .. MaxFrames :
       app' = [app EXCEPT !.main = "loop", !.left = n]
  /\ UNCHANGED KernelVars

\* The loop test and, inside the loop, requestResult = false.
LoopTest ==
  /\ app.main = "loop"
  /\ app' = IF app.left > 0
              THEN [app EXCEPT !.main = "queue", !.left = @ - 1,
                               !.requestResult = FALSE]
              ELSE [app EXCEPT !.main = "cleanup"]
  /\ UNCHANGED KernelVars

\* camera->queueRequest(request.get())
QueueRequest ==
  /\ app.main = "queue"
  /\ app' = [app EXCEPT !.main = "lock", !.status = "pending"]
  /\ UNCHANGED KernelVars

\* waitForRequest(): std::unique_lock<std::mutex> lock(mtx)
WaitLock ==
  /\ app.main = "lock"
  /\ app.mtx = "free"
  /\ app' = [app EXCEPT !.main = "check", !.mtx = "main"]
  /\ UNCHANGED KernelVars

\* cond_variable.wait(lock, pred): the predicate is evaluated with mtx held;
\* when it is true the wait returns and the lock is released on the way out.
WaitCheck ==
  /\ app.main = "check"
  /\ app' = IF app.requestResult
              THEN [app EXCEPT !.main = "after", !.mtx = "free"]
              ELSE [app EXCEPT !.main = "block"]
  /\ UNCHANGED KernelVars

\* cond_variable.wait(lock): mtx is released and the thread joins the waiters
\* in one step.
WaitBlock ==
  /\ app.main = "block"
  /\ app' = [app EXCEPT !.main = "blocked", !.mtx = "free",
                        !.waiting = TRUE]
  /\ UNCHANGED KernelVars

\* The waiter has been woken: it takes mtx again and evaluates the predicate.
WaitWake ==
  /\ app.main = "blocked"
  /\ ~app.waiting
  /\ app.mtx = "free"
  /\ app' = [app EXCEPT !.main = "check", !.mtx = "main"]
  /\ UNCHANGED KernelVars

\* A condition variable may wake a waiter that nobody notified.
SpuriousWake ==
  /\ app.main = "blocked"
  /\ app.waiting
  /\ app' = [app EXCEPT !.waiting = FALSE]
  /\ UNCHANGED KernelVars

\* After waitForRequest(): the failure branch, or captureAndEncode() and
\* request->reuse().
AfterWait ==
  /\ app.main = "after"
  /\ app' = IF ~app.requestResult
              THEN [app EXCEPT !.main = "cleanup",
                               !.out = Append(@, "Request failed or cancelled")]
              ELSE [app EXCEPT !.main = "loop", !.frames = @ + 1,
                               !.status = "none"]
  /\ UNCHANGED KernelVars

\* cleanupFFmpeg(); camera->stop()
StopCapture ==
  /\ app.main = "cleanup"
  /\ app' = [app EXCEPT !.main = "stopped",
                        !.out = Append(@, "camera stopped")]
  /\ UNCHANGED KernelVars

\* The camera completes the queued request, successfully or cancelled, and
\* emits requestCompleted in its own thread.
CompleteRequest ==
  /\ app.status = "pending"
  /\ app.cb = "idle"
  /\ \E s \in {"complete", "cancelled"} :
       app' = [app EXCEPT !.status = s, !.cb = "set"]
  /\ UNCHANGED KernelVars

\* onRequestCompleted(): requestResult is assigned without mtx.
CallbackSet ==
  /\ app.cb = "set"
  /\ app' = [app EXCEPT !.cb = "notify",
                        !.requestResult = (app.status # "cancelled")]
  /\ UNCHANGED KernelVars

\* onRequestCompleted(): cond_variable.notify_one() wakes a thread that is
\* among the waiters and is lost when there is none.
CallbackNotify ==
  /\ app.cb = "notify"
  /\ app' = [app EXCEPT !.cb = "idle", !.waiting = FALSE]
  /\ UNCHANGED KernelVars

MainStep ==
  \/ StartCapture
  \/ LoopTest
  \/ QueueRequest
  \/ WaitLock
  \/ WaitCheck
  \/ WaitBlock
  \/ WaitWake
  \/ AfterWait
  \/ StopCapture

CallbackStep ==
  \/ CallbackSet
  \/ CallbackNotify

NextCapture ==
  \/ MainStep
  \/ SpuriousWake
  \/ CompleteRequest
  \/ CallbackStep

SpecCapture == InitCapture /\ [][NextCapture]_vars

\* Both threads keep running; neither a completion of the request nor a
\* spurious wake-up is promised.
SpecCaptureFair ==
  SpecCapture /\ WF_vars(MainStep) /\ WF_vars(CallbackStep)

\* The capture thread is inside waitForRequest().
InWaitForRequest == app.main \in {"lock", "check", "block", "blocked"}

\* C40: once the queued request has completed, successfully or cancelled,
\* the thread in waitForRequest() eventually returns; after a cancelled
\* request the loop reports "Request failed or cancelled", is left, and the
\* encoder cleanup and camera->stop() are reached.
C40_CompletionWakesWaiter ==
  /\ (app.status \in {"complete", "cancelled"}) ~> ~InWaitForRequest
  /\ (app.status = "cancelled") ~>
       (/\ app.main = "stopped"
        /\ \E i \in DOMAIN app.out : app.out[i] = "Request failed or cancelled")

\* A cancelled request never lets waitForRequest() return: the predicate of
\* the wait is requestResult, which the callback has just cleared.
CancelledBlocksWaiter ==
  [](app.status = "cancelled" => [](InWaitForRequest /\ app.out = << >>))

\* The wait returns only with requestResult set, so the failure branch after
\* it is never taken.
FailureBranchDead ==
  /\ app.main = "after" => app.requestResult
  /\ \A i \in DOMAIN app.out : app.out[i] # "Request failed or cancelled"

\* Even a successful completion can leave the waiter blocked: the callback
\* may set requestResult and notify between the waiter's evaluation of the
\* predicate and its joining the waiters.
SuccessWakesWaiter ==
  (app.status = "complete") ~> ~InWaitForRequest

====
